---- MODULE Spec2Model ----
(***************************************************************************)
(* A model of the wifi_proxy crate (kenken64/robodog-esp32): interface     *)
(* discovery and USB classification (src/src/interface.rs), network        *)
(* scanning (src/src/scan.rs), connection management                       *)
(* (src/src/connection.rs), the saved configuration (src/src/config.rs)    *)
(* and the command handlers that bring them together (src/src/main.rs),    *)
(* with the start of the proxy server (src/src/server.rs).                 *)
(*                                                                         *)
(* Text is a sequence of tokens.  A token is a lexeme of the text: the     *)
(* delimiters ":" , "\n" and "\r", a decimal digit or sign of a number,    *)
(* or a word that holds none of these ("wlan0", "wifi", "WPA2").  The      *)
(* token "usb" stands for an occurrence of the substring "usb"; no other   *)
(* token of the model holds it.  A field of a line is the token sequence   *)
(* between two delimiters, so str::lines, str::split and [T]::join are     *)
(* computed on the text as the code computes them.                         *)
(* String::from_utf8_lossy changes no token: the output of the daemon is   *)
(* taken as valid UTF-8.                                                   *)
(***************************************************************************)
EXTENDS Naturals, Sequences, FiniteSets

VARIABLES
    devListing,   \* stdout the daemon gives for `nmcli -t -f DEVICE,TYPE,STATE device`
    apListing,    \* stdout the daemon gives for `nmcli -t -f SSID,SIGNAL,SECURITY device wifi list`
    showListing,  \* stdout the daemon gives for `nmcli -t device show <interface>`
    sysfs,        \* /sys/class/net/<name>/device, per interface name
    ret,          \* the call the caller holds the result of: operation, argument,
                  \* commands run, result (NoCall when it holds none)
    call,         \* the call in progress, statement by statement: operation,
                  \* arguments, position, outputs read, processes started and
                  \* ended so far (Idle when none is)
    prev,         \* the result of an earlier call that the caller has kept, with
                  \* the listing and the sysfs of that call (NoCall when none)
    configFile,   \* ~/.config/wifi-proxy/config.toml
    selfConfig    \* a Config value in memory (the self of add_network, find_network)

vars == <<devListing, apListing, showListing, sysfs, ret, call, prev, configFile, selfConfig>>

\* ------------------------------------------------------------------ bounds

MaxDevLines == 2
MaxApLines == 3
MaxShowLines == 3

\* ------------------------------------------------------------------- text

NL == "\n"
CR == "\r"
COLON == ":"

Contains(s, tok) == \E i \in 1..Len(s) : s[i] = tok

FirstIndex(s, tok) == CHOOSE i \in 1..Len(s) : s[i] = tok /\ \A j \in 1..(i - 1) : s[j] # tok

\* str::split(sep): the fields between the separators; a text without one is one field.
RECURSIVE Split(_, _)
Split(s, sep) ==
    IF ~Contains(s, sep) THEN <<s>>
    ELSE LET i == FirstIndex(s, sep)
         IN  <<SubSeq(s, 1, i - 1)>> \o Split(SubSeq(s, i + 1, Len(s)), sep)

\* [T]::join(sep)
RECURSIVE Join(_, _)
Join(parts, sep) ==
    IF parts = <<>> THEN <<>>
    ELSE IF Len(parts) = 1 THEN parts[1]
    ELSE parts[1] \o <<sep>> \o Join(Tail(parts), sep)

StripCr(line) ==
    IF line # <<>> /\ line[Len(line)] = CR THEN SubSeq(line, 1, Len(line) - 1) ELSE line

\* str::lines(): split at "\n" or "\r\n"; the final line ending is optional, and
\* a last line without "\n" is returned as it is.
RECURSIVE Lines(_)
Lines(s) ==
    IF s = <<>> THEN <<>>
    ELSE IF ~Contains(s, NL) THEN <<s>>
    ELSE LET i == FirstIndex(s, NL)
         IN  <<StripCr(SubSeq(s, 1, i - 1))>> \o Lines(SubSeq(s, i + 1, Len(s)))

NumLines(s) == Cardinality({i \in 1..Len(s) : s[i] = NL})

\* ---------------------------------------------------------------- results

NoErr == [kind |-> "", msg |-> <<>>]
Ok(v) == [ok |-> TRUE, val |-> v, err |-> NoErr]
Err(k, m) == [ok |-> FALSE, val |-> <<>>, err |-> [kind |-> k, msg |-> m]]

\* WifiProxyError
NoUsbInterfaceFound == Err("NoUsbInterfaceFound", <<>>)
InterfaceNotFound(name) == Err("InterfaceNotFound", name)
NmcliExecution(stderr) == Err("NmcliExecution", stderr)

\* ------------------------------------------------------- external process

\* Command::output(): the process cannot be spawned, or it ran and exited with
\* or without success.
Outcomes == {"ok", "nonzero", "nospawn"}
StderrText == <<"Error: NetworkManager is not running.">>

Output(outcome, text) ==
    [spawned |-> outcome # "nospawn",
     success |-> outcome = "ok",
     stdout  |-> IF outcome = "ok" THEN text ELSE <<>>,
     stderr  |-> IF outcome = "nonzero" THEN StderrText ELSE <<>>]

\* ------------------------------------------------------------------ sysfs

DeviceNames == {<<"wlan0">>, <<"wlan1">>}

PciPath == <<"../../devices/pci0000:00/0000:03:00.0">>
UsbPath == <<"../../devices/pci0000:00/0000:00:14.0/", "usb", "1/1-4/1-4:1.0">>

LinkUnreadable == [ok |-> FALSE, utf8 |-> TRUE, path |-> <<>>]
LinkNotUtf8 == [ok |-> TRUE, utf8 |-> FALSE, path |-> <<>>]
LinkTo(p) == [ok |-> TRUE, utf8 |-> TRUE, path |-> p]
Links == {LinkUnreadable, LinkNotUtf8, LinkTo(PciPath), LinkTo(UsbPath)}

NoUevent == [ok |-> FALSE, content |-> <<>>]
UeventOf(c) == [ok |-> TRUE, content |-> c]
Uevents == {NoUevent,
            UeventOf(<<"DRIVER=iwlwifi">>),
            UeventOf(<<"DEVTYPE=", "usb", "_interface">>)}

\* What is_usb_interface reads of one interface: whether the device path
\* exists (Path::exists), what fs::read_link gives for it (an error when it is
\* no symlink or may not be read, a target that is not UTF-8, or a target
\* path), and what the uevent file below it holds.  sysfs keeps no dangling
\* device link, so a path that does not exist has no link target, and no
\* uevent file below it either.
Absent == [exists |-> FALSE, link |-> LinkUnreadable, uevent |-> NoUevent]
SysfsEntries ==
    {Absent} \cup {[exists |-> TRUE, link |-> l, uevent |-> u] : l \in Links, u \in Uevents}

\* The entries of a built-in adapter, a USB adapter and a virtual interface.
CoreEntries ==
    {Absent,
     [exists |-> TRUE, link |-> LinkTo(PciPath), uevent |-> UeventOf(<<"DRIVER=iwlwifi">>)],
     [exists |-> TRUE, link |-> LinkTo(UsbPath), uevent |-> NoUevent]}

SysfsEntry(fs, name) == IF name \in DOMAIN fs THEN fs[name] ELSE Absent

\* -------------------------------------------------------------- interface

WifiInterface(n, s, u) == [name |-> n, state |-> s, is_usb |-> u]

\* is_usb_interface reading only the uevent file.
is_usb_interface_UeventOnly(fs, interface_name) ==
    LET e == SysfsEntry(fs, interface_name)
    IN  e.exists /\ e.uevent.ok /\ Contains(e.uevent.content, "usb")

is_usb_interface(fs, interface_name) ==
    LET e == SysfsEntry(fs, interface_name)
    IN  IF ~e.exists THEN FALSE
        ELSE IF e.link.ok /\ e.link.utf8 THEN Contains(e.link.path, "usb")
        ELSE IF e.uevent.ok /\ Contains(e.uevent.content, "usb") THEN TRUE
        ELSE FALSE

\* The loop of list_wifi_interfaces without the test of the TYPE field.
RECURSIVE ParseDevices_AnyType(_, _)
ParseDevices_AnyType(lines, fs) ==
    IF lines = <<>> THEN <<>>
    ELSE LET parts == Split(Head(lines), COLON)
         IN  IF Len(parts) >= 3
             THEN <<WifiInterface(parts[1], parts[3], is_usb_interface(fs, parts[1]))>>
                  \o ParseDevices_AnyType(Tail(lines), fs)
             ELSE ParseDevices_AnyType(Tail(lines), fs)

\* The loop of list_wifi_interfaces over stdout.lines().
RECURSIVE ParseDevices(_, _)
ParseDevices(lines, fs) ==
    IF lines = <<>> THEN <<>>
    ELSE LET parts == Split(Head(lines), COLON)
         IN  IF Len(parts) >= 3 /\ parts[2] = <<"wifi">>
             THEN <<WifiInterface(parts[1], parts[3], is_usb_interface(fs, parts[1]))>>
                  \o ParseDevices(Tail(lines), fs)
             ELSE ParseDevices(Tail(lines), fs)

list_wifi_interfaces(out, fs) ==
    IF ~out.spawned THEN Err("Io", <<"Failed to execute nmcli">>)
    ELSE IF ~out.success THEN NmcliExecution(out.stderr)
    ELSE Ok(ParseDevices(Lines(out.stdout), fs))

\* Iterator::find: the first element the predicate holds of.
\* hits holds the indexes of the elements the predicate holds of.
FindFirst(s, hits) ==
    IF hits = {} THEN <<>>
    ELSE <<s[CHOOSE i \in hits : \A j \in hits : i <= j]>>

\* find_usb_wifi_interface taking the first adapter when none is USB.
find_usb_wifi_interface_AnyFirst(out, fs) ==
    LET interfaces == list_wifi_interfaces(out, fs)
    IN  IF ~interfaces.ok THEN interfaces
        ELSE LET all == interfaces.val
                 found == FindFirst(all, {i \in 1..Len(all) : all[i].is_usb})
                 first == FindFirst(all, 1..Len(all))
             IN  IF found # <<>> THEN Ok(found)
                 ELSE IF first # <<>> THEN Ok(first)
                 ELSE NoUsbInterfaceFound

find_usb_wifi_interface(out, fs) ==
    LET interfaces == list_wifi_interfaces(out, fs)
    IN  IF ~interfaces.ok THEN interfaces
        ELSE LET all == interfaces.val
                 found == FindFirst(all, {i \in 1..Len(all) : all[i].is_usb})
             IN  IF found = <<>> THEN NoUsbInterfaceFound ELSE Ok(found)

\* get_interface falling back to USB detection when the name is not listed.
get_interface_Fallback(name, out, fs) ==
    LET interfaces == list_wifi_interfaces(out, fs)
    IN  IF ~interfaces.ok THEN interfaces
        ELSE LET all == interfaces.val
                 found == FindFirst(all, {i \in 1..Len(all) : all[i].name = name})
             IN  IF found = <<>> THEN find_usb_wifi_interface(out, fs) ELSE Ok(found)

get_interface(name, out, fs) ==
    LET interfaces == list_wifi_interfaces(out, fs)
    IN  IF ~interfaces.ok THEN interfaces
        ELSE LET all == interfaces.val
                 found == FindFirst(all, {i \in 1..Len(all) : all[i].name = name})
             IN  IF found = <<>> THEN InterfaceNotFound(name) ELSE Ok(found)

\* Option<&str>: <<>> is None, <<name>> is Some(name).
resolve_interface(interface, out, fs) ==
    IF interface # <<>> THEN get_interface(interface[1], out, fs)
    ELSE find_usb_wifi_interface(out, fs)

\* ------------------------------------------------------------------- scan

U8Max == 255

Digits == {"0", "1", "2", "3", "4", "5", "6", "7", "8", "9"}

DigitValue(c) ==
    CASE c = "0" -> 0 [] c = "1" -> 1 [] c = "2" -> 2 [] c = "3" -> 3 [] c = "4" -> 4
      [] c = "5" -> 5 [] c = "6" -> 6 [] c = "7" -> 7 [] c = "8" -> 8 [] c = "9" -> 9

RECURSIVE DecimalValue(_)
DecimalValue(ds) ==
    IF ds = <<>> THEN 0
    ELSE 10 * DecimalValue(SubSeq(ds, 1, Len(ds) - 1)) + DigitValue(ds[Len(ds)])

\* str::parse::<u8>(): <<v>> is Ok(v), <<>> is Err.  An optional "+", then
\* decimal digits only, at least one, and a value that fits eight bits.
parse_u8(src) ==
    IF src = <<>> THEN <<>>
    ELSE IF Len(src) = 1 /\ src[1] \in {"+", "-"} THEN <<>>
    ELSE LET digits == IF src[1] = "+" THEN Tail(src) ELSE src
         IN  IF \E i \in 1..Len(digits) : digits[i] \notin Digits THEN <<>>
             ELSE IF DecimalValue(digits) > U8Max THEN <<>>
             ELSE <<DecimalValue(digits)>>

\* parts[1].parse().unwrap_or(0)
parse_signal(field) == IF parse_u8(field) = <<>> THEN 0 ELSE parse_u8(field)[1]

Network(ssid, signal, security) == [ssid |-> ssid, signal |-> signal, security |-> security]

\* The loop of scan_networks that keeps every record, duplicates too.
RECURSIVE ParseNetworks_NoDedup(_, _, _)
ParseNetworks_NoDedup(lines, networks, seen_ssids) ==
    IF lines = <<>> THEN networks
    ELSE LET parts == Split(Head(lines), COLON)
         IN  IF Len(parts) >= 3 /\ parts[1] # <<>>
             THEN ParseNetworks_NoDedup(
                      Tail(lines),
                      Append(networks, Network(parts[1], parse_signal(parts[2]),
                                               Join(SubSeq(parts, 3, Len(parts)), COLON))),
                      seen_ssids)
             ELSE ParseNetworks_NoDedup(Tail(lines), networks, seen_ssids)

\* The loop of scan_networks without the test for an empty SSID.
RECURSIVE ParseNetworks_KeepHidden(_, _, _)
ParseNetworks_KeepHidden(lines, networks, seen_ssids) ==
    IF lines = <<>> THEN networks
    ELSE LET parts == Split(Head(lines), COLON)
         IN  IF Len(parts) >= 3 /\ parts[1] \notin seen_ssids
             THEN ParseNetworks_KeepHidden(
                      Tail(lines),
                      Append(networks, Network(parts[1], parse_signal(parts[2]),
                                               Join(SubSeq(parts, 3, Len(parts)), COLON))),
                      seen_ssids \cup {parts[1]})
             ELSE ParseNetworks_KeepHidden(Tail(lines), networks, seen_ssids)

\* The loop of scan_networks taking the third field alone as the security.
RECURSIVE ParseNetworks_ThirdFieldOnly(_, _, _)
ParseNetworks_ThirdFieldOnly(lines, networks, seen_ssids) ==
    IF lines = <<>> THEN networks
    ELSE LET parts == Split(Head(lines), COLON)
         IN  IF Len(parts) >= 3 /\ parts[1] # <<>> /\ parts[1] \notin seen_ssids
             THEN ParseNetworks_ThirdFieldOnly(
                      Tail(lines),
                      Append(networks, Network(parts[1], parse_signal(parts[2]), parts[3])),
                      seen_ssids \cup {parts[1]})
             ELSE ParseNetworks_ThirdFieldOnly(Tail(lines), networks, seen_ssids)

\* The loop of scan_networks over stdout.lines().
RECURSIVE ParseNetworks(_, _, _)
ParseNetworks(lines, networks, seen_ssids) ==
    IF lines = <<>> THEN networks
    ELSE LET parts == Split(Head(lines), COLON)
         IN  IF Len(parts) >= 3
             THEN LET ssid == parts[1]
                  IN  IF ssid = <<>> \/ ssid \in seen_ssids
                      THEN ParseNetworks(Tail(lines), networks, seen_ssids)
                      ELSE ParseNetworks(
                               Tail(lines),
                               Append(networks,
                                      Network(ssid, parse_signal(parts[2]),
                                              Join(SubSeq(parts, 3, Len(parts)), COLON))),
                               seen_ssids \cup {ssid})
             ELSE ParseNetworks(Tail(lines), networks, seen_ssids)

InsertAt(s, k, x) == SubSeq(s, 1, k - 1) \o <<x>> \o SubSeq(s, k, Len(s))

\* A sort by descending signal that puts a network before those of its signal.
RECURSIVE SortBySignalDesc_Unstable(_)
SortBySignalDesc_Unstable(networks) ==
    IF networks = <<>> THEN <<>>
    ELSE LET sorted == SortBySignalDesc_Unstable(SubSeq(networks, 1, Len(networks) - 1))
             x == networks[Len(networks)]
             after == {k \in 1..Len(sorted) : sorted[k].signal <= x.signal}
         IN  IF after = {} THEN Append(sorted, x)
             ELSE InsertAt(sorted, CHOOSE k \in after : \A j \in after : k <= j, x)

\* networks.sort_by(|a, b| b.signal.cmp(&a.signal)): a stable sort, so each
\* network goes behind every one whose signal is not less than its own.
RECURSIVE SortBySignalDesc(_)
SortBySignalDesc(networks) ==
    IF networks = <<>> THEN <<>>
    ELSE LET sorted == SortBySignalDesc(SubSeq(networks, 1, Len(networks) - 1))
             x == networks[Len(networks)]
             after == {k \in 1..Len(sorted) : sorted[k].signal < x.signal}
         IN  IF after = {} THEN Append(sorted, x)
             ELSE InsertAt(sorted, CHOOSE k \in after : \A j \in after : k <= j, x)

\* scan_networks failing on the first record whose signal does not parse.
scan_networks_Strict(interface, rescan, out) ==
    IF ~out.spawned THEN Err("Io", <<"Failed to execute nmcli wifi list">>)
    ELSE IF ~out.success THEN NmcliExecution(out.stderr)
    ELSE LET lines == Lines(out.stdout)
         IN  IF \E i \in 1..Len(lines) :
                    /\ Len(Split(lines[i], COLON)) >= 3
                    /\ parse_u8(Split(lines[i], COLON)[2]) = <<>>
             THEN Err("NmcliParse", <<"signal">>)
             ELSE Ok(SortBySignalDesc(ParseNetworks(lines, <<>>, {})))

\* scan_networks returning the error of a rescan that failed.
scan_networks_RescanFatal(interface, rescan, out) ==
    IF ~rescan.spawned THEN Err("Io", <<"Failed to execute nmcli wifi rescan">>)
    ELSE IF ~rescan.success THEN NmcliExecution(rescan.stderr)
    ELSE IF ~out.spawned THEN Err("Io", <<"Failed to execute nmcli wifi list">>)
    ELSE IF ~out.success THEN NmcliExecution(out.stderr)
    ELSE Ok(SortBySignalDesc(ParseNetworks(Lines(out.stdout), <<>>, {})))

\* The outcome of the rescan is dropped (let _ = ...), the sleep changes
\* nothing the function reads.
scan_networks(interface, rescan, out) ==
    IF ~out.spawned THEN Err("Io", <<"Failed to execute nmcli wifi list">>)
    ELSE IF ~out.success THEN NmcliExecution(out.stderr)
    ELSE Ok(SortBySignalDesc(ParseNetworks(Lines(out.stdout), <<>>, {})))

\* ------------------------------------------------------------- connection

ConnectionFailed(error_msg) == Err("ConnectionFailed", error_msg)

\* The Output of a process that was spawned and has exited.
Exited(success, stdout, stderr) ==
    [spawned |-> TRUE, success |-> success, stdout |-> stdout, stderr |-> stderr]

\* Command::output() failing: no process, no output.
NotSpawned == [spawned |-> FALSE, success |-> FALSE, stdout |-> <<>>, stderr |-> <<>>]

\* connect reporting stderr alone.
connect_StderrOnly(interface, ssid, password, out) ==
    IF ~out.spawned THEN Err("Io", <<"Failed to execute nmcli connect">>)
    ELSE IF ~out.success THEN ConnectionFailed(out.stderr)
    ELSE Ok(<<>>)

connect(interface, ssid, password, out) ==
    IF ~out.spawned THEN Err("Io", <<"Failed to execute nmcli connect">>)
    ELSE IF ~out.success
         THEN ConnectionFailed(IF out.stderr = <<>> THEN out.stdout ELSE out.stderr)
         ELSE Ok(<<>>)

disconnect(interface, out) ==
    IF ~out.spawned THEN Err("Io", <<"Failed to execute nmcli disconnect">>)
    ELSE IF ~out.success THEN NmcliExecution(out.stderr)
    ELSE Ok(<<>>)

\* The Option fields are sequences: <<>> is None, <<v>> is Some(v).
ConnectionStatus(interface, state, connection, ip_address, gateway) ==
    [interface |-> interface, state |-> state, connection |-> connection,
     ip_address |-> ip_address, gateway |-> gateway]

\* line.splitn(2, ':'): the text before and the text behind the first colon,
\* or the line alone when it holds no colon.
SplitN2(line) ==
    IF ~Contains(line, COLON) THEN <<line>>
    ELSE LET i == FirstIndex(line, COLON)
         IN  <<SubSeq(line, 1, i - 1), SubSeq(line, i + 1, Len(line))>>

\* The match of status on the key of a line.
SetField(status, key, value) ==
    IF key = <<"GENERAL.STATE">> THEN [status EXCEPT !.state = value]
    ELSE IF key = <<"GENERAL.CONNECTION">>
         THEN IF value # <<>> /\ value # <<"--">>
              THEN [status EXCEPT !.connection = <<value>>]
              ELSE status
    ELSE IF key = <<"IP4.ADDRESS[1]">> THEN [status EXCEPT !.ip_address = <<value>>]
    ELSE IF key = <<"IP4.GATEWAY">>
         THEN IF value # <<>> /\ value # <<"--">>
              THEN [status EXCEPT !.gateway = <<value>>]
              ELSE status
    ELSE status

\* The loop of status cutting the value at its next colon.
RECURSIVE ParseStatus_SplitAll(_, _)
ParseStatus_SplitAll(lines, status) ==
    IF lines = <<>> THEN status
    ELSE LET parts == Split(Head(lines), COLON)
         IN  IF Len(parts) < 2 THEN ParseStatus_SplitAll(Tail(lines), status)
             ELSE ParseStatus_SplitAll(Tail(lines), SetField(status, parts[1], parts[2]))

\* The loop of status over stdout.lines().
RECURSIVE ParseStatus(_, _)
ParseStatus(lines, status) ==
    IF lines = <<>> THEN status
    ELSE LET parts == SplitN2(Head(lines))
         IN  IF Len(parts) # 2 THEN ParseStatus(Tail(lines), status)
             ELSE ParseStatus(Tail(lines), SetField(status, parts[1], parts[2]))

\* status failing on a line without a colon and on an output without state.
status_Strict(interface, out) ==
    IF ~out.spawned THEN Err("Io", <<"Failed to execute nmcli device show">>)
    ELSE IF ~out.success THEN NmcliExecution(out.stderr)
    ELSE LET lines == Lines(out.stdout)
         IN  IF \/ \E i \in 1..Len(lines) : ~Contains(lines[i], COLON)
                \/ \A i \in 1..Len(lines) : SplitN2(lines[i])[1] # <<"GENERAL.STATE">>
             THEN Err("NmcliParse", <<"device show">>)
             ELSE Ok(<<ParseStatus(lines,
                                   ConnectionStatus(interface, <<"unknown">>, <<>>, <<>>, <<>>))>>)

\* status reading what the command printed although it failed.
status_Partial(interface, out) ==
    IF ~out.spawned THEN Err("Io", <<"Failed to execute nmcli device show">>)
    ELSE IF ~out.success /\ out.stdout = <<>> THEN NmcliExecution(out.stderr)
    ELSE Ok(<<ParseStatus(Lines(out.stdout),
                          ConnectionStatus(interface, <<"unknown">>, <<>>, <<>>, <<>>))>>)

status(interface, out) ==
    IF ~out.spawned THEN Err("Io", <<"Failed to execute nmcli device show">>)
    ELSE IF ~out.success THEN NmcliExecution(out.stderr)
    ELSE Ok(<<ParseStatus(Lines(out.stdout),
                          ConnectionStatus(interface, <<"unknown">>, <<>>, <<>>, <<>>))>>)

\* ----------------------------------------------------------------- config

\* Option<String> fields are sequences: <<>> is None, <<v>> is Some(v).
Config(networks, default_interface) ==
    [networks |-> networks, default_interface |-> default_interface]

NetworkConfig(ssid, password, interface) ==
    [ssid |-> ssid, password |-> password, interface |-> interface]

\* Config::default()
ConfigDefault == Config(<<>>, <<>>)

\* The config file: not there, there with a text that does not read or parse
\* as a Config, or there with the TOML of a Config.  The TOML text of a
\* Config names each field that is not None with its value, and a field of
\* the text that is missing reads as its default (#[serde(default)]), so the
\* text is kept as the Config it reads as.
FileAbsent == [state |-> "absent", cfg |-> ConfigDefault]
FileCorrupt == [state |-> "corrupt", cfg |-> ConfigDefault]

\* A file that Config::load fails on although its text holds entries: a
\* config.toml next to whose entries stands a line that does not parse, or
\* one that cannot be read.  cfg is what its text holds.
FileUnparsed(cfg) == [state |-> "corrupt", cfg |-> cfg]

FileOf(cfg) == [state |-> "ok", cfg |-> cfg]

Config_load(file) ==
    IF file.state = "absent" THEN Ok(<<ConfigDefault>>)
    ELSE IF file.state = "corrupt" THEN Err("Io", <<"Failed to read or parse config file">>)
    ELSE Ok(<<file.cfg>>)

\* Result<Config>::unwrap_or_default()
unwrap_or_default(loaded) == IF loaded.ok THEN loaded.val[1] ELSE ConfigDefault

\* Config::save: the directory cannot be made or the text not serialized and
\* the file stays as it was ("failed"), or fs::write fails and leaves a file
\* it has cut ("torn"), or the file holds the text of the Config ("ok").
SaveOutcomes == {"ok", "failed", "torn"}

Config_save(cfg, file, outcome) ==
    IF outcome = "ok" THEN [res |-> Ok(<<>>), file |-> FileOf(cfg)]
    ELSE IF outcome = "failed"
         THEN [res |-> Err("Io", <<"Failed to create config directory">>), file |-> file]
         ELSE [res |-> Err("Io", <<"Failed to write config file">>), file |-> FileCorrupt]

\* Config::find_network: <<>> is None, <<n>> is Some(n).
find_network(cfg, ssid) ==
    LET all == cfg.networks
    IN  FindFirst(all, {i \in 1..Len(all) : all[i].ssid = ssid})

\* add_network pushing the new entry without the retain.
add_network_NoRetain(cfg, network) ==
    [cfg EXCEPT !.networks = Append(cfg.networks, network)]

\* Config::add_network: retain the entries of other SSIDs, push the new one.
add_network(cfg, network) ==
    LET others == {i \in 1..Len(cfg.networks) : cfg.networks[i].ssid # network.ssid}
        kept == [k \in 1..Cardinality(others) |->
                    cfg.networks[CHOOSE i \in others :
                                     Cardinality({j \in others : j <= i}) = k]]
    IN  [cfg EXCEPT !.networks = Append(kept, network)]

\* -------------------------------------------------------------------- cli

\* A step a handler has taken outside its own process: an nmcli command with
\* the interface it was given (<<>> when the command names none) and its
\* other arguments, the writing of the config file, an HTTP request, the
\* start of the server.
IssuedWith(cmd, ifname, args) == [cmd |-> cmd, ifname |-> ifname, args |-> args]

Issued(cmd, ifname) == IssuedWith(cmd, ifname, <<>>)

\* What a handler leaves: the value main returns, the steps taken, the file.
Finish(res, cmds, file) == [res |-> res, cmds |-> cmds, file |-> file]

Bail(msg) == Err("Bail", msg)

FetchFailed(msg) == Err("FetchFailed", msg)

\* connection::fetch_gateway: the request, the body, the output file.
fetch_gateway(url, output_path, http, written) ==
    IF http # "ok" THEN FetchFailed(<<"request failed">>)
    ELSE IF written # "ok" THEN Err("Io", <<"Failed to write output file">>)
    ELSE Ok(<<>>)

\* server::run_server: the listener cannot be bound, or the server has run
\* until it was stopped.
run_server(config, served) ==
    IF served = "bind failed" THEN Err("Io", <<"address in use">>) ELSE Ok(<<>>)

ServerConfig(gateway, port) == [gateway |-> gateway, port |-> port]

\* io holds what the handler is given by the processes it runs and by the
\* file system: io.device, io.connect, io.disconnect, io.show, io.rescan and
\* io.list are the Outputs of the commands, io.write is how Config::save ends,
\* io.http how the HTTP request ends, io.output how the writing of the output
\* file ends, io.serve how the server ends.
cmd_scan(file, fs, interface, io) ==
    LET iface == resolve_interface(interface, io.device, fs)
        listed == <<Issued("device", <<>>)>>
    IN  IF ~iface.ok THEN Finish(iface, listed, file)
        ELSE LET name == iface.val[1].name
                 networks == scan_networks(name, io.rescan, io.list)
             IN  Finish(IF networks.ok THEN Ok(<<>>) ELSE networks,
                        listed \o <<Issued("wifi rescan", <<name>>),
                                    Issued("wifi list", <<name>>)>>,
                        file)

\* cmd_connect taking the adapter before it looks for the password.
cmd_connect_ResolveFirst(file, fs, ssid, password, interface, save, io) ==
    LET cfg == unwrap_or_default(Config_load(file))
        network == find_network(cfg, ssid)
        pw == IF password # <<>> THEN password
              ELSE IF network # <<>> THEN <<network[1].password>>
              ELSE <<>>
        iface == resolve_interface(interface, io.device, fs)
        listed == <<Issued("device", <<>>)>>
    IN  IF ~iface.ok THEN Finish(iface, listed, file)
        ELSE IF pw = <<>>
        THEN Finish(Bail(<<"No password provided and no saved credentials">>), listed, file)
        ELSE Finish(connect(iface.val[1].name, ssid, pw[1], io.connect),
                    Append(listed, IssuedWith("wifi connect", <<iface.val[1].name>>,
                                              <<ssid, pw[1]>>)),
                    file)

\* cmd_connect saving the credentials before it connects.
cmd_connect_SaveFirst(file, fs, ssid, password, interface, save, io) ==
    LET cfg == unwrap_or_default(Config_load(file))
        network == find_network(cfg, ssid)
        pw == IF password # <<>> THEN password
              ELSE IF network # <<>> THEN <<network[1].password>>
              ELSE <<>>
        iface == resolve_interface(interface, io.device, fs)
        listed == <<Issued("device", <<>>)>>
    IN  IF pw = <<>>
        THEN Finish(Bail(<<"No password provided and no saved credentials">>), <<>>, file)
        ELSE IF ~iface.ok THEN Finish(iface, listed, file)
        ELSE
        LET name == iface.val[1].name
            saved == IF save
                     THEN Config_save(add_network(cfg, NetworkConfig(ssid, pw[1], <<name>>)),
                                      file, io.write)
                     ELSE [res |-> Ok(<<>>), file |-> file]
            written == IF save THEN Append(listed, Issued("config save", <<>>)) ELSE listed
        IN  IF ~saved.res.ok THEN Finish(saved.res, written, saved.file)
            ELSE Finish(connect(name, ssid, pw[1], io.connect),
                        Append(written, IssuedWith("wifi connect", <<name>>, <<ssid, pw[1]>>)),
                        saved.file)

\* cmd_connect taking the connection down again when the status query fails.
cmd_connect_RollBack(file, fs, ssid, password, interface, save, io) ==
    LET cfg == unwrap_or_default(Config_load(file))
        network == find_network(cfg, ssid)
        pw == IF password # <<>> THEN password
              ELSE IF network # <<>> THEN <<network[1].password>>
              ELSE <<>>
        iface == resolve_interface(interface, io.device, fs)
        listed == <<Issued("device", <<>>)>>
    IN  IF pw = <<>>
        THEN Finish(Bail(<<"No password provided and no saved credentials">>), <<>>, file)
        ELSE IF ~iface.ok THEN Finish(iface, listed, file)
        ELSE
        LET name == iface.val[1].name
            connected == connect(name, ssid, pw[1], io.connect)
            tried == Append(listed, IssuedWith("wifi connect", <<name>>, <<ssid, pw[1]>>))
            saved == IF save
                     THEN Config_save(add_network(cfg, NetworkConfig(ssid, pw[1], <<name>>)),
                                      file, io.write)
                     ELSE [res |-> Ok(<<>>), file |-> file]
            written == IF save THEN Append(tried, Issued("config save", <<>>)) ELSE tried
            shown == status(name, io.show)
            queried == Append(written, Issued("device show", <<name>>))
        IN  IF ~connected.ok THEN Finish(connected, tried, file)
            ELSE IF ~saved.res.ok THEN Finish(saved.res, written, saved.file)
            ELSE IF ~shown.ok
            THEN Finish(shown, Append(queried, Issued("device disconnect", <<name>>)),
                        saved.file)
            ELSE Finish(Ok(<<>>), queried, saved.file)

cmd_connect(file, fs, ssid, password, interface, save, io) ==
    LET cfg == unwrap_or_default(Config_load(file))
        network == find_network(cfg, ssid)
        pw == IF password # <<>> THEN password
              ELSE IF network # <<>> THEN <<network[1].password>>
              ELSE <<>>
    IN  IF pw = <<>>
        THEN Finish(Bail(<<"No password provided and no saved credentials">>), <<>>, file)
        ELSE
        LET iface == resolve_interface(interface, io.device, fs)
            listed == <<Issued("device", <<>>)>>
        IN  IF ~iface.ok THEN Finish(iface, listed, file)
            ELSE
            LET name == iface.val[1].name
                connected == connect(name, ssid, pw[1], io.connect)
                tried == Append(listed, IssuedWith("wifi connect", <<name>>, <<ssid, pw[1]>>))
            IN  IF ~connected.ok THEN Finish(connected, tried, file)
                ELSE
                LET saved == IF save
                             THEN Config_save(
                                      add_network(cfg, NetworkConfig(ssid, pw[1], <<name>>)),
                                      file, io.write)
                             ELSE [res |-> Ok(<<>>), file |-> file]
                    written == IF save THEN Append(tried, Issued("config save", <<>>))
                               ELSE tried
                IN  IF ~saved.res.ok THEN Finish(saved.res, written, saved.file)
                    ELSE
                    LET shown == status(name, io.show)
                    IN  Finish(IF shown.ok THEN Ok(<<>>) ELSE shown,
                               Append(written, Issued("device show", <<name>>)),
                               saved.file)

cmd_status(file, fs, interface, io) ==
    LET iface == resolve_interface(interface, io.device, fs)
        listed == <<Issued("device", <<>>)>>
    IN  IF ~iface.ok THEN Finish(iface, listed, file)
        ELSE LET name == iface.val[1].name
                 shown == status(name, io.show)
             IN  Finish(IF shown.ok THEN Ok(<<>>) ELSE shown,
                        Append(listed, Issued("device show", <<name>>)),
                        file)

\* cmd_disconnect taking a name given on the command line as it is.
cmd_disconnect_Unresolved(file, fs, interface, io) ==
    LET iface == resolve_interface(interface, io.device, fs)
        listed == <<Issued("device", <<>>)>>
    IN  IF interface # <<>>
        THEN Finish(disconnect(interface[1], io.disconnect),
                    <<Issued("device disconnect", interface)>>, file)
        ELSE IF ~iface.ok THEN Finish(iface, listed, file)
        ELSE Finish(disconnect(iface.val[1].name, io.disconnect),
                    Append(listed, Issued("device disconnect", <<iface.val[1].name>>)),
                    file)

cmd_disconnect(file, fs, interface, io) ==
    LET iface == resolve_interface(interface, io.device, fs)
        listed == <<Issued("device", <<>>)>>
    IN  IF ~iface.ok THEN Finish(iface, listed, file)
        ELSE LET name == iface.val[1].name
             IN  Finish(disconnect(name, io.disconnect),
                        Append(listed, Issued("device disconnect", <<name>>)),
                        file)

\* The gateway of the adapter's status, or the error of the step that did not
\* give one: the first statements of cmd_fetch_gateway and of cmd_serve.
NoGatewayFound(name) == Bail(<<"No gateway found for interface ">> \o name)

\* cmd_fetch_gateway asking for the gateway only when it has to build the URL.
cmd_fetch_gateway_UrlFirst(file, fs, output, interface, url, io) ==
    LET iface == resolve_interface(interface, io.device, fs)
        listed == <<Issued("device", <<>>)>>
    IN  IF ~iface.ok THEN Finish(iface, listed, file)
        ELSE
        LET name == iface.val[1].name
            shown == status(name, io.show)
            queried == Append(listed, Issued("device show", <<name>>))
        IN  IF ~shown.ok THEN Finish(shown, queried, file)
            ELSE IF url = <<>> /\ shown.val[1].gateway = <<>>
            THEN Finish(NoGatewayFound(name), queried, file)
            ELSE
            LET fetch_url == IF url # <<>> THEN url[1]
                             ELSE <<"http://">> \o shown.val[1].gateway[1] \o <<"/">>
                fetched == Append(queried, IssuedWith("http get", <<>>, <<fetch_url>>))
            IN  Finish(fetch_gateway(fetch_url, output, io.http, io.output),
                       IF io.http = "ok"
                       THEN Append(fetched, IssuedWith("file write", <<>>, <<output>>))
                       ELSE fetched,
                       file)

cmd_fetch_gateway(file, fs, output, interface, url, io) ==
    LET iface == resolve_interface(interface, io.device, fs)
        listed == <<Issued("device", <<>>)>>
    IN  IF ~iface.ok THEN Finish(iface, listed, file)
        ELSE
        LET name == iface.val[1].name
            shown == status(name, io.show)
            queried == Append(listed, Issued("device show", <<name>>))
        IN  IF ~shown.ok THEN Finish(shown, queried, file)
            ELSE IF shown.val[1].gateway = <<>>
            THEN Finish(NoGatewayFound(name), queried, file)
            ELSE
            LET gateway == shown.val[1].gateway[1]
                fetch_url == IF url # <<>> THEN url[1]
                             ELSE <<"http://">> \o gateway \o <<"/">>
                fetched == Append(queried, IssuedWith("http get", <<>>, <<fetch_url>>))
            IN  Finish(fetch_gateway(fetch_url, output, io.http, io.output),
                       IF io.http = "ok"
                       THEN Append(fetched, IssuedWith("file write", <<>>, <<output>>))
                       ELSE fetched,
                       file)

cmd_serve(file, fs, port, interface, io) ==
    LET iface == resolve_interface(interface, io.device, fs)
        listed == <<Issued("device", <<>>)>>
    IN  IF ~iface.ok THEN Finish(iface, listed, file)
        ELSE
        LET name == iface.val[1].name
            shown == status(name, io.show)
            queried == Append(listed, Issued("device show", <<name>>))
        IN  IF ~shown.ok THEN Finish(shown, queried, file)
            ELSE IF shown.val[1].gateway = <<>>
            THEN Finish(NoGatewayFound(name), queried, file)
            ELSE
            LET config == ServerConfig(shown.val[1].gateway[1], port)
            IN  Finish(run_server(config, io.serve),
                       Append(queried,
                              IssuedWith("run_server", <<>>, <<config.gateway, config.port>>)),
                       file)

cmd_save_network(file, ssid, password, interface, io) ==
    LET cfg == unwrap_or_default(Config_load(file))
        saved == Config_save(add_network(cfg, NetworkConfig(ssid, password, interface)),
                             file, io.write)
    IN  Finish(saved.res, <<Issued("config save", <<>>)>>, saved.file)

\* ------------------------------------------------------------------ state

NoCall == [op |-> "none", arg |-> <<>>, cmds |-> <<>>, res |-> Ok(<<>>)]

Idle == [op |-> "none", arg |-> <<>>, pc |-> 0, waiting |-> FALSE, outs |-> <<>>, events |-> <<>>]

Cmd(name, outcome) == [cmd |-> name, outcome |-> outcome]

\* The records the daemon lists, field by field: an empty line, a line cut
\* after TYPE, the three fields of the format, and a STATE that holds a colon.
DeviceRecords ==
    {<< <<>> >>}
    \cup {<<d, <<"wifi">>>> : d \in DeviceNames}
    \cup {<<d, <<"wifi">>, <<s>>>> : d \in DeviceNames, s \in {"connected", "disconnected"}}
    \cup {<<d, <<"ethernet">>, <<"connected">>>> : d \in DeviceNames}
    \cup {<<d, <<"wifi">>, <<"connecting (need auth)">>, <<"reason 7">>>> : d \in DeviceNames}

\* The three fields of a wireless device, as nmcli prints them.
WifiRecords == {<<d, <<"wifi">>, <<"connected">>>> : d \in DeviceNames}

InitCommon ==
    /\ devListing = <<>>
    /\ apListing = <<>>
    /\ showListing = <<>>
    /\ ret = NoCall
    /\ call = Idle
    /\ prev = NoCall
    /\ selfConfig = ConfigDefault
    /\ configFile = FileAbsent

\* The daemon lists one more device.  A result still held belongs to the
\* listing of its call, so it is dropped.
DaemonListsDevice(rec) ==
    /\ NumLines(devListing) < MaxDevLines
    /\ devListing' = devListing \o Join(rec, COLON) \o <<NL>>
    /\ ret' = NoCall
    /\ UNCHANGED <<apListing, showListing, sysfs, call, prev, configFile, selfConfig>>

\* list_wifi_interfaces answering from the adapters it has listed before.
CallListWifiInterfaces_Cached(outcome) ==
    /\ ret = NoCall
    /\ ret' = [op |-> "list_wifi_interfaces", arg |-> <<>>,
               cmds |-> <<Cmd("device", outcome)>>,
               res |-> IF prev # NoCall /\ prev.res.ok /\ outcome = "ok"
                       THEN prev.res
                       ELSE list_wifi_interfaces(Output(outcome, devListing), sysfs)]
    /\ UNCHANGED <<devListing, apListing, showListing, sysfs, call, prev, configFile, selfConfig>>

CallListWifiInterfaces(outcome) ==
    /\ ret = NoCall
    /\ ret' = [op |-> "list_wifi_interfaces", arg |-> <<>>,
               cmds |-> <<Cmd("device", outcome)>>,
               res |-> list_wifi_interfaces(Output(outcome, devListing), sysfs)]
    /\ UNCHANGED <<devListing, apListing, showListing, sysfs, call, prev, configFile, selfConfig>>

CallResolveInterface(interface, outcome) ==
    /\ ret = NoCall
    /\ ret' = [op |-> "resolve_interface", arg |-> interface,
               cmds |-> <<Cmd("device", outcome)>>,
               res |-> resolve_interface(interface, Output(outcome, devListing), sysfs)]
    /\ UNCHANGED <<devListing, apListing, showListing, sysfs, call, prev, configFile, selfConfig>>

\* The caller is done with the result; its next call is a new one.
CallerTakesResult ==
    /\ ret # NoCall
    /\ ret' = NoCall
    /\ UNCHANGED <<devListing, apListing, showListing, sysfs, call, prev, configFile, selfConfig>>

Options(S) == {<<>>} \cup {<<x>> : x \in S}

InitInterface ==
    /\ InitCommon
    /\ sysfs \in [DeviceNames -> CoreEntries]

NextInterface ==
    \/ \E rec \in DeviceRecords : DaemonListsDevice(rec)
    \/ \E o \in Outcomes : CallListWifiInterfaces(o)
    \/ \E i \in Options(DeviceNames), o \in Outcomes : CallResolveInterface(i, o)
    \/ CallerTakesResult

SpecInterface == InitInterface /\ [][NextInterface]_vars

InitUsb ==
    /\ InitCommon
    /\ sysfs \in [DeviceNames -> SysfsEntries]

NextUsb ==
    \/ \E rec \in WifiRecords : DaemonListsDevice(rec)
    \/ \E o \in Outcomes : CallListWifiInterfaces(o)
    \/ \E o \in Outcomes : CallResolveInterface(<<>>, o)
    \/ CallerTakesResult

SpecUsb == InitUsb /\ [][NextUsb]_vars

\* An adapter is plugged in, pulled or replaced: its entry in sysfs changes.
DeviceReplugged(name, entry) ==
    /\ sysfs[name] # entry
    /\ sysfs' = [sysfs EXCEPT ![name] = entry]
    /\ ret' = NoCall
    /\ UNCHANGED <<devListing, apListing, showListing, call, prev, configFile, selfConfig>>

\* The caller keeps the adapters it was given and goes on to its next call.
CallerKeepsResult ==
    /\ ret.op = "list_wifi_interfaces"
    /\ prev' = [op |-> ret.op, arg |-> ret.arg, cmds |-> ret.cmds, res |-> ret.res,
                devListing |-> devListing, sysfs |-> sysfs]
    /\ ret' = NoCall
    /\ UNCHANGED <<devListing, apListing, showListing, sysfs, call, configFile, selfConfig>>

\* The records of two wireless devices and of one that is not wireless.
RepeatRecords ==
    {<< <<"wlan0">>, <<"wifi">>, <<"connected">> >>,
     << <<"wlan1">>, <<"wifi">>, <<"disconnected">> >>,
     << <<"wlan1">>, <<"ethernet">>, <<"connected">> >>}

InitRepeat ==
    /\ InitCommon
    /\ sysfs \in [DeviceNames -> CoreEntries]

NextRepeat ==
    \/ \E rec \in RepeatRecords : DaemonListsDevice(rec)
    \/ \E d \in DeviceNames, e \in CoreEntries : DeviceReplugged(d, e)
    \/ \E o \in Outcomes : CallListWifiInterfaces(o)
    \/ CallerKeepsResult
    \/ CallerTakesResult

SpecRepeat == InitRepeat /\ [][NextRepeat]_vars

D(a, b) == <<a, b>>

\* The records the daemon lists for the access points in range: the three of
\* the specification's example, equal signals, a security that holds a colon,
\* a hidden network, signals that are no number, that are no percentage, that
\* do not fit eight bits or that carry a sign, and a line cut after SIGNAL.
ApRecords ==
    {<< <<"A">>, D("5", "0"), <<"WPA2">> >>,
     << <<"B">>, D("9", "0"), <<>> >>,
     << <<"A">>, D("3", "0"), <<"WPA2">> >>,
     << <<"C">>, D("5", "0"), <<"WPA1 WPA2">>, <<"802.1X">> >>,
     << <<"B">>, <<"+", "5", "0">>, <<"WPA2">> >>,
     << <<>>, D("9", "0"), <<"WPA2">> >>,
     << <<"C">>, <<>>, <<"WPA2">> >>,
     << <<"C">>, D("-", "5"), <<"WPA2">> >>,
     << <<"D">>, <<"2", "0", "0">>, <<"WPA2">> >>,
     << <<"D">>, <<"3", "0", "0">>, <<>> >>,
     << <<"A">>, D("5", "0") >>}

\* The daemon lists one more access point.
DaemonListsNetwork(rec) ==
    /\ NumLines(apListing) < MaxApLines
    /\ apListing' = apListing \o Join(rec, COLON) \o <<NL>>
    /\ ret' = NoCall
    /\ UNCHANGED <<devListing, showListing, sysfs, call, prev, configFile, selfConfig>>

CallScanNetworks(interface, rescan, list) ==
    /\ ret = NoCall
    /\ ret' = [op |-> "scan_networks", arg |-> <<interface>>,
               cmds |-> <<Cmd("wifi rescan", rescan), Cmd("wifi list", list)>>,
               res |-> scan_networks(interface, rescan, Output(list, apListing))]
    /\ UNCHANGED <<devListing, apListing, showListing, sysfs, call, prev, configFile, selfConfig>>

InitScan ==
    /\ InitCommon
    /\ sysfs = [d \in DeviceNames |-> Absent]

NextScan ==
    \/ \E rec \in ApRecords : DaemonListsNetwork(rec)
    \/ \E r \in Outcomes, l \in Outcomes : CallScanNetworks(<<"wlan1">>, r, l)
    \/ CallerTakesResult

SpecScan == InitScan /\ [][NextScan]_vars

\* The lines `nmcli -t device show` prints: the four keys that status reads,
\* with a value, with the "--" of the daemon and with no value, a state given
\* twice, values and keys of other fields that hold colons, a key that
\* differs from a read one in its index, a line without colon and an empty one.
ShowLines ==
    {<<"GENERAL.STATE", COLON, "100 (connected)">>,
     <<"GENERAL.STATE", COLON, "30 (disconnected)">>,
     <<"GENERAL.CONNECTION", COLON, "RoboDog-AP">>,
     <<"GENERAL.CONNECTION", COLON, "AP", COLON, "5G">>,
     <<"GENERAL.CONNECTION", COLON, "--">>,
     <<"GENERAL.CONNECTION", COLON>>,
     <<"IP4.ADDRESS[1]", COLON, "192.168.4.2/24">>,
     <<"IP4.ADDRESS[1]", COLON, "--">>,
     <<"IP4.ADDRESS[1]", COLON>>,
     <<"IP4.GATEWAY", COLON, "192.168.4.1">>,
     <<"IP4.GATEWAY", COLON, "--">>,
     <<"IP4.GATEWAY", COLON>>,
     <<"GENERAL.HWADDR", COLON, "00", COLON, "1A">>,
     <<"IP4.ADDRESS[2]", COLON, "10.0.0.2/8">>,
     <<"nmcli">>,
     <<>>}

\* The daemon has one more line to show of the device.
DaemonShowsLine(line) ==
    /\ NumLines(showListing) < MaxShowLines
    /\ showListing' = showListing \o line \o <<NL>>
    /\ ret' = NoCall
    /\ UNCHANGED <<devListing, apListing, sysfs, call, prev, configFile, selfConfig>>

CallStatus(interface, outcome) ==
    /\ ret = NoCall
    /\ ret' = [op |-> "status", arg |-> <<interface>>,
               cmds |-> <<Cmd("device show", outcome)>>,
               res |-> status(interface, Output(outcome, showListing))]
    /\ UNCHANGED <<devListing, apListing, showListing, sysfs, call, prev, configFile, selfConfig>>

InitStatus ==
    /\ InitCommon
    /\ sysfs = [d \in DeviceNames |-> Absent]

NextStatus ==
    \/ \E line \in ShowLines : DaemonShowsLine(line)
    \/ \E i \in DeviceNames, o \in Outcomes : CallStatus(i, o)
    \/ CallerTakesResult

SpecStatus == InitStatus /\ [][NextStatus]_vars

\* --------------------------------------------- calls, statement by statement

SleepMillis == 500

\* The statements of an operation that start a process or wait, in the order
\* of the code; every other statement computes on what these have returned.
RunsCommand(cmd) == [kind |-> "process", cmd |-> cmd, ms |-> 0]
Sleeps(ms) == [kind |-> "sleep", cmd |-> "thread::sleep", ms |-> ms]

\* scan_networks listing the networks right after the rescan.
Program_NoWait(op) ==
    CASE op = "connect" -> <<RunsCommand("wifi connect")>>
      [] op = "disconnect" -> <<RunsCommand("device disconnect")>>
      [] op = "status" -> <<RunsCommand("device show")>>
      [] op = "list_wifi_interfaces" -> <<RunsCommand("device")>>
      [] op = "scan_networks" -> <<RunsCommand("wifi rescan"), RunsCommand("wifi list")>>

Program(op) ==
    CASE op = "connect" -> <<RunsCommand("wifi connect")>>
      [] op = "disconnect" -> <<RunsCommand("device disconnect")>>
      [] op = "status" -> <<RunsCommand("device show")>>
      [] op = "list_wifi_interfaces" -> <<RunsCommand("device")>>
      [] op = "scan_networks" ->
             <<RunsCommand("wifi rescan"), Sleeps(SleepMillis), RunsCommand("wifi list")>>

\* What nmcli may print and how it may exit, per command: with success, the
\* text asked for; without, a message on stderr, on stdout or on neither, and
\* for the listings what was printed before the failure.
Outputs(cmd) ==
    CASE cmd = "wifi connect" ->
             {Exited(TRUE, so, <<>>) :
                 so \in {<<>>, <<"Device 'wlan1' successfully activated.">>}}
             \cup {Exited(FALSE, so, se) :
                      so \in {<<>>, <<"Error: Connection activation failed.">>},
                      se \in {<<>>, <<"Error: No network with SSID 'RoboDog-AP' found.">>}}
      [] cmd = "device disconnect" ->
             {Exited(TRUE, <<"Device 'wlan1' successfully disconnected.">>, <<>>),
              Exited(FALSE, <<>>, <<"Error: Device 'wlan1' not found.">>),
              Exited(FALSE, <<"Error: not all devices disconnected.">>, <<>>)}
      [] cmd = "device show" ->
             {Exited(TRUE, showListing, <<>>),
              Exited(FALSE, showListing, StderrText),
              Exited(FALSE, <<>>, <<>>)}
      [] cmd = "device" ->
             {Exited(TRUE, devListing, <<>>),
              Exited(FALSE, devListing, StderrText),
              Exited(FALSE, <<>>, <<>>)}
      [] cmd = "wifi rescan" ->
             {Exited(TRUE, <<>>, <<>>),
              Exited(FALSE, <<>>, <<"Error: Scanning not allowed immediately following previous scan.">>)}
      [] cmd = "wifi list" ->
             {Exited(TRUE, apListing, <<>>),
              Exited(FALSE, apListing, StderrText),
              Exited(FALSE, <<>>, <<>>)}

Event(ev, cmd, out) == [ev |-> ev, cmd |-> cmd, out |-> out]

\* An operation that runs its command a second time when the first run failed.
NextPc_RetryOnce(c, out) ==
    IF ~out.success /\ Len(c.outs) < c.pc THEN c.pc ELSE c.pc + 1

\* The statement behind a Command::output(): no operation has a loop or a
\* branch back, so it is the next one of the code, whatever the output was
\* (an error leaves through `?` or return, and nothing of Program follows the
\* command whose error is returned).
NextPc(c, out) == c.pc + 1

\* What the operation returns on the outputs it has read.
Result(c) ==
    LET out == c.outs[Len(c.outs)]
    IN  CASE c.op = "connect" -> connect(c.arg[1], c.arg[2], c.arg[3], out)
          [] c.op = "disconnect" -> disconnect(c.arg[1], out)
          [] c.op = "status" -> status(c.arg[1], out)
          [] c.op = "list_wifi_interfaces" -> list_wifi_interfaces(out, sysfs)
          [] c.op = "scan_networks" -> scan_networks(c.arg[1], c.outs[1], out)

Running == call.op # "none" /\ call.pc <= Len(Program(call.op))

Statement == Program(call.op)[call.pc]

EnterCall(op, arg) ==
    /\ call = Idle
    /\ ret = NoCall
    /\ call' = [op |-> op, arg |-> arg, pc |-> 1, waiting |-> FALSE,
                outs |-> <<>>, events |-> <<>>]
    /\ UNCHANGED <<devListing, apListing, showListing, sysfs, ret, prev, configFile, selfConfig>>

\* Command::output() starts the process and waits for it.
ProcessStarts ==
    /\ Running /\ ~call.waiting
    /\ Statement.kind = "process"
    /\ call' = [call EXCEPT !.waiting = TRUE,
                            !.events = Append(@, Event("start", Statement.cmd, NotSpawned))]
    /\ UNCHANGED <<devListing, apListing, showListing, sysfs, ret, prev, configFile, selfConfig>>

\* Command::output() cannot start the process and returns the error.
SpawnFails ==
    /\ Running /\ ~call.waiting
    /\ Statement.kind = "process"
    /\ call' = [call EXCEPT !.pc = NextPc(call, NotSpawned),
                            !.outs = Append(@, NotSpawned),
                            !.events = Append(@, Event("nospawn", Statement.cmd, NotSpawned))]
    /\ UNCHANGED <<devListing, apListing, showListing, sysfs, ret, prev, configFile, selfConfig>>

\* The process ends and Command::output() returns what it has printed.
ProcessExits(out) ==
    /\ Running /\ call.waiting
    /\ out \in Outputs(Statement.cmd)
    /\ call' = [call EXCEPT !.pc = NextPc(call, out),
                            !.waiting = FALSE,
                            !.outs = Append(@, out),
                            !.events = Append(@, Event("exit", Statement.cmd, out))]
    /\ UNCHANGED <<devListing, apListing, showListing, sysfs, ret, prev, configFile, selfConfig>>

\* std::thread::sleep returns.
SleepEnds ==
    /\ Running /\ ~call.waiting
    /\ Statement.kind = "sleep"
    /\ call' = [call EXCEPT !.pc = @ + 1,
                            !.events = Append(@, Event("sleep", Statement.cmd, NotSpawned))]
    /\ UNCHANGED <<devListing, apListing, showListing, sysfs, ret, prev, configFile, selfConfig>>

Returns ==
    /\ call.op # "none"
    /\ call.pc > Len(Program(call.op))
    /\ ret' = [op |-> call.op, arg |-> call.arg, cmds |-> call.events, res |-> Result(call)]
    /\ call' = Idle
    /\ UNCHANGED <<devListing, apListing, showListing, sysfs, prev, configFile, selfConfig>>

AllOutputs ==
    UNION {Outputs(cmd) : cmd \in {"wifi connect", "device disconnect", "device show",
                                     "device", "wifi rescan", "wifi list"}}

\* The calls of the library: the adapter, and for connect the network and its password.
Calls ==
    {<<"connect", << <<"wlan1">>, <<"RoboDog-AP">>, <<"secret">> >> >>,
     <<"disconnect", << <<"wlan1">> >> >>,
     <<"status", << <<"wlan1">> >> >>,
     <<"list_wifi_interfaces", <<>> >>,
     <<"scan_networks", << <<"wlan1">> >> >>}

\* A built-in adapter and a USB adapter, and what the daemon lists of them
\* and of the networks in range.
InitProcess ==
    /\ sysfs = [d \in DeviceNames |->
                   IF d = <<"wlan1">>
                   THEN [exists |-> TRUE, link |-> LinkTo(UsbPath), uevent |-> NoUevent]
                   ELSE [exists |-> TRUE, link |-> LinkTo(PciPath),
                         uevent |-> UeventOf(<<"DRIVER=iwlwifi">>)]]
    /\ devListing \in {<<>>,
                        <<"wlan0", COLON, "wifi", COLON, "connected", NL,
                          "wlan1", COLON, "wifi", COLON, "disconnected", NL>>}
    /\ apListing \in {<<>>,
                       <<"RoboDog-AP", COLON, "8", "0", COLON, "WPA2", NL,
                         "Home", COLON, "9", "5", COLON, "WPA2", NL>>}
    /\ showListing \in {<<"GENERAL.STATE", COLON, "30 (disconnected)", NL>>,
                         <<"GENERAL.STATE", COLON, "100 (connected)", NL,
                           "IP4.GATEWAY", COLON, "192.168.4.1", NL>>}
    /\ ret = NoCall
    /\ call = Idle
    /\ prev = NoCall
    /\ selfConfig = ConfigDefault
    /\ configFile = FileAbsent

NextProcess ==
    \/ \E c \in Calls : EnterCall(c[1], c[2])
    \/ ProcessStarts
    \/ SpawnFails
    \/ \E out \in AllOutputs : ProcessExits(out)
    \/ SleepEnds
    \/ Returns
    \/ CallerTakesResult

SpecProcess == InitProcess /\ [][NextProcess]_vars

\* ----------------------------------------------------------- command line

\* What the processes and the file system may give one run of a command:
\* each nmcli command ends with or without success (the connect command may
\* also not start), and Config::save ends in one of its three ways.
DeviceOuts == {Output(o, devListing) : o \in {"ok", "nonzero"}}
ConnectOuts ==
    {Exited(TRUE, <<>>, <<>>),
     Exited(FALSE, <<>>, <<"Error: No network with SSID 'RoboDog-AP' found.">>),
     NotSpawned}
DisconnectOuts ==
    {Exited(TRUE, <<>>, <<>>), Exited(FALSE, <<>>, <<"Error: Device 'wlan1' not found.">>)}
ShowOuts == {Output(o, showListing) : o \in {"ok", "nonzero"}}
RescanOuts ==
    {Exited(TRUE, <<>>, <<>>),
     Exited(FALSE, <<>>, <<"Error: Scanning not allowed immediately following previous scan.">>)}
ListOuts == {Output(o, apListing) : o \in {"ok", "nonzero"}}
HttpOuts == {"ok", "failed"}
ServeOuts == {"bind failed", "stopped"}

\* The part of io a handler reads; it runs no other command.
NotRun == [device |-> NotSpawned, connect |-> NotSpawned, disconnect |-> NotSpawned,
           show |-> NotSpawned, rescan |-> NotSpawned, list |-> NotSpawned,
           write |-> "failed", http |-> "failed", output |-> "failed",
           serve |-> "bind failed"]

\* The step of a handler that reads each part of io.
StepOf == [device |-> "device", connect |-> "wifi connect",
           disconnect |-> "device disconnect", show |-> "device show",
           rescan |-> "wifi rescan", list |-> "wifi list", write |-> "config save",
           http |-> "http get", output |-> "file write", serve |-> "run_server"]

\* What the steps a handler took were given: a step it did not take was
\* given nothing.
Given(io, cmds) ==
    [f \in DOMAIN NotRun |->
        IF \E i \in 1..Len(cmds) : cmds[i].cmd = StepOf[f] THEN io[f] ELSE NotRun[f]]

\* The run of a command as the user sees it: the command and its arguments,
\* what the processes and the file system gave its steps, the steps it took,
\* what main returned, and the config file there was when it started.
Ran(op, arg, io, done) ==
    [op |-> op, arg |-> arg, io |-> Given(io, done.cmds), cmds |-> done.cmds,
     res |-> done.res, stored |-> configFile]

\* A handler returns: its run is there to see and the file is as it left it.
HandlerReturns(op, arg, io, done) ==
    /\ ret' = Ran(op, arg, io, done)
    /\ configFile' = done.file

CmdScan(interface, io) ==
    /\ ret = NoCall
    /\ HandlerReturns("cmd_scan", <<interface>>, io,
                      cmd_scan(configFile, sysfs, interface, io))
    /\ UNCHANGED <<devListing, apListing, showListing, sysfs, call, prev, selfConfig>>

\* The connect command run as if --save were always given.
CmdConnect_AlwaysSave(ssid, password, interface, save, io) ==
    /\ ret = NoCall
    /\ HandlerReturns("cmd_connect", <<interface, ssid, password, save>>, io,
                      cmd_connect(configFile, sysfs, ssid, password, interface, TRUE, io))
    /\ UNCHANGED <<devListing, apListing, showListing, sysfs, call, prev, selfConfig>>

CmdConnect(ssid, password, interface, save, io) ==
    /\ ret = NoCall
    /\ HandlerReturns("cmd_connect", <<interface, ssid, password, save>>, io,
                      cmd_connect(configFile, sysfs, ssid, password, interface, save, io))
    /\ UNCHANGED <<devListing, apListing, showListing, sysfs, call, prev, selfConfig>>

CmdStatus(interface, io) ==
    /\ ret = NoCall
    /\ HandlerReturns("cmd_status", <<interface>>, io,
                      cmd_status(configFile, sysfs, interface, io))
    /\ UNCHANGED <<devListing, apListing, showListing, sysfs, call, prev, selfConfig>>

CmdDisconnect(interface, io) ==
    /\ ret = NoCall
    /\ HandlerReturns("cmd_disconnect", <<interface>>, io,
                      cmd_disconnect(configFile, sysfs, interface, io))
    /\ UNCHANGED <<devListing, apListing, showListing, sysfs, call, prev, selfConfig>>

CmdFetchGateway(output, interface, url, io) ==
    /\ ret = NoCall
    /\ HandlerReturns("cmd_fetch_gateway", <<interface, output, url>>, io,
                      cmd_fetch_gateway(configFile, sysfs, output, interface, url, io))
    /\ UNCHANGED <<devListing, apListing, showListing, sysfs, call, prev, selfConfig>>

CmdServe(port, interface, io) ==
    /\ ret = NoCall
    /\ HandlerReturns("cmd_serve", <<interface, port>>, io,
                      cmd_serve(configFile, sysfs, port, interface, io))
    /\ UNCHANGED <<devListing, apListing, showListing, sysfs, call, prev, selfConfig>>

CmdSaveNetwork(ssid, password, interface, io) ==
    /\ ret = NoCall
    /\ HandlerReturns("cmd_save_network", <<interface, ssid, password>>, io,
                      cmd_save_network(configFile, ssid, password, interface, io))
    /\ UNCHANGED <<devListing, apListing, showListing, sysfs, call, prev, selfConfig>>

Ssids == {<<"RoboDog-AP">>, <<"Home">>}
Passwords == {<<"secret">>}
Urls == {<<"http://192.168.4.1/status">>}
OutputPaths == {<<"gateway.html">>}
Ports == {<<"8080">>}

\* The config files a user may have: none, one that does not parse, one that
\* names a default interface, saved networks with and without a preferred
\* interface, and one whose text holds saved networks and a default interface
\* next to a line that does not parse.
ConfigFiles ==
    {FileAbsent,
     FileCorrupt,
     FileOf(Config(<<>>, << <<"wlan0">> >>)),
     FileOf(Config(<<NetworkConfig(<<"RoboDog-AP">>, <<"secret">>, << <<"wlan0">> >>)>>, <<>>)),
     FileOf(Config(<<NetworkConfig(<<"RoboDog-AP">>, <<"secret">>, <<>>),
                     NetworkConfig(<<"Home">>, <<"hunter2">>, << <<"wlan1">> >>)>>,
                   << <<"wlan0">> >>)),
     FileUnparsed(Config(<<NetworkConfig(<<"Home">>, <<"hunter2">>, <<>>)>>,
                         << <<"wlan0">> >>))}

\* What `nmcli -t device show` prints for the adapter: connected with a
\* gateway, and without one.
ShowListings ==
    {<<"GENERAL.STATE", COLON, "100 (connected)", NL,
       "IP4.GATEWAY", COLON, "192.168.4.1", NL>>,
     <<"GENERAL.STATE", COLON, "100 (connected)", NL,
       "IP4.GATEWAY", COLON, "--", NL>>}

\* A built-in adapter wlan0 and wlan1, which is a USB adapter or not plugged
\* in; the daemon lists both as wireless devices.
InitCli ==
    /\ sysfs \in {[d \in DeviceNames |->
                      IF d = <<"wlan1">> THEN e
                      ELSE [exists |-> TRUE, link |-> LinkTo(PciPath),
                            uevent |-> UeventOf(<<"DRIVER=iwlwifi">>)]] :
                   e \in {Absent,
                          [exists |-> TRUE, link |-> LinkTo(UsbPath), uevent |-> NoUevent]}}
    /\ devListing = <<"wlan0", COLON, "wifi", COLON, "connected", NL,
                      "wlan1", COLON, "wifi", COLON, "disconnected", NL>>
    /\ apListing = <<"RoboDog-AP", COLON, "8", "0", COLON, "WPA2", NL>>
    /\ showListing \in ShowListings
    /\ configFile \in ConfigFiles
    /\ ret = NoCall
    /\ call = Idle
    /\ prev = NoCall
    /\ selfConfig = ConfigDefault

NextCli ==
    \/ \E i \in Options(DeviceNames), d \in DeviceOuts, r \in RescanOuts, l \in ListOuts :
           CmdScan(i, [NotRun EXCEPT !.device = d, !.rescan = r, !.list = l])
    \/ \E n \in Ssids, p \in Options(Passwords), i \in Options(DeviceNames), s \in BOOLEAN,
          d \in DeviceOuts, c \in ConnectOuts, w \in SaveOutcomes, sh \in ShowOuts :
           CmdConnect(n, p, i, s,
                      [NotRun EXCEPT !.device = d, !.connect = c, !.write = w, !.show = sh])
    \/ \E i \in Options(DeviceNames), d \in DeviceOuts, sh \in ShowOuts :
           CmdStatus(i, [NotRun EXCEPT !.device = d, !.show = sh])
    \/ \E i \in Options(DeviceNames), d \in DeviceOuts, x \in DisconnectOuts :
           CmdDisconnect(i, [NotRun EXCEPT !.device = d, !.disconnect = x])
    \/ \E o \in OutputPaths, i \in Options(DeviceNames), u \in Options(Urls),
          d \in DeviceOuts, sh \in ShowOuts, h \in HttpOuts, w \in HttpOuts :
           CmdFetchGateway(o, i, u,
                           [NotRun EXCEPT !.device = d, !.show = sh, !.http = h, !.output = w])
    \/ \E p \in Ports, i \in Options(DeviceNames), d \in DeviceOuts, sh \in ShowOuts,
          e \in ServeOuts :
           CmdServe(p, i, [NotRun EXCEPT !.device = d, !.show = sh, !.serve = e])
    \/ \E n \in Ssids, p \in Passwords, i \in Options(DeviceNames), w \in SaveOutcomes :
           CmdSaveNetwork(n, p, i, [NotRun EXCEPT !.write = w])
    \/ CallerTakesResult

SpecCli == InitCli /\ [][NextCli]_vars

\* ---------------------------------------------------------- config calls

MaxNetworks == 3

ConfigSsids == {<<"RoboDog-AP">>, <<"Home">>, <<"Lab">>}

\* The entries a caller may add or a config.toml may hold.
NetworkConfigs ==
    {NetworkConfig(s, p, <<>>) : s \in ConfigSsids, p \in {<<"secret">>, <<"hunter2">>}}
    \cup {NetworkConfig(<<"RoboDog-AP">>, <<"secret">>, << <<"wlan1">> >>)}

\* The sequences over S of length n.
SeqsOfLen(S, n) == [1..n -> S]

\* Any Config: the entries of a config.toml are whatever its text lists, in
\* its order, the same SSID several times included.
Configs ==
    {Config(networks, d) :
        networks \in UNION {SeqsOfLen(NetworkConfigs, n) : n \in 0..MaxNetworks},
        d \in Options({<<"wlan0">>})}

\* cfg.add_network(network).  The caller holds the call with the Config there
\* was before it, and whether its Config was an empty one before its first call.
CallAddNetwork(network) ==
    /\ selfConfig' = add_network(selfConfig, network)
    /\ ret' = [op |-> "add_network", arg |-> <<network>>, cmds |-> <<>>, res |-> Ok(<<>>),
               before |-> selfConfig,
               fromEmpty |-> IF ret = NoCall THEN selfConfig.networks = <<>> ELSE ret.fromEmpty]
    /\ UNCHANGED <<devListing, apListing, showListing, sysfs, call, prev, configFile>>

\* cfg.find_network(ssid)
CallFindNetwork(ssid) ==
    /\ ret' = [op |-> "find_network", arg |-> <<ssid>>, cmds |-> <<>>,
               res |-> Ok(find_network(selfConfig, ssid)),
               before |-> selfConfig,
               fromEmpty |-> IF ret = NoCall THEN selfConfig.networks = <<>> ELSE ret.fromEmpty]
    /\ UNCHANGED <<devListing, apListing, showListing, sysfs, call, prev, configFile, selfConfig>>

InitConfig ==
    /\ devListing = <<>>
    /\ apListing = <<>>
    /\ showListing = <<>>
    /\ sysfs = [d \in DeviceNames |-> Absent]
    /\ ret = NoCall
    /\ call = Idle
    /\ prev = NoCall
    /\ configFile = FileAbsent
    /\ selfConfig \in Configs

NextConfig ==
    \/ \E n \in NetworkConfigs : CallAddNetwork(n)
    \/ \E s \in ConfigSsids : CallFindNetwork(s)

SpecConfig == InitConfig /\ [][NextConfig]_vars

\* ----------------------------------------------------- claims: interface

\* The lines of a listing, each as its sequence of fields.
Records(text) == LET lines == Lines(text) IN [i \in 1..Len(lines) |-> Split(lines[i], COLON)]

Least(S) == CHOOSE i \in S : \A j \in S : i <= j

\* The lines of the DEVICE:TYPE:STATE listing whose TYPE is "wifi".
WifiLines(recs) == {i \in 1..Len(recs) : Len(recs[i]) >= 3 /\ recs[i][2] = <<"wifi">>}

ListingRead == ret.cmds # <<>> /\ ret.cmds[Len(ret.cmds)].outcome = "ok"

C2_ResolveNone ==
    (ret.op = "resolve_interface" /\ ret.arg = <<>> /\ ListingRead) =>
        LET recs == Records(devListing)
            usb == {i \in WifiLines(recs) : is_usb_interface(sysfs, recs[i][1])}
        IN  /\ usb = {} => ret.res = NoUsbInterfaceFound
            /\ usb # {} =>
                   ret.res = Ok(<<WifiInterface(recs[Least(usb)][1], recs[Least(usb)][3], TRUE)>>)
            /\ ret.res.ok => ret.res.val[1].is_usb

\* C2 witness: the first wireless adapter of the listing is not USB and the
\* second one, which is, is returned.
C2_Witness ==
    /\ ret.op = "resolve_interface" /\ ret.arg = <<>> /\ ListingRead
    /\ ret.res.ok
    /\ LET recs == Records(devListing)
       IN  /\ WifiLines(recs) = {1, 2}
           /\ recs[1][1] # ret.res.val[1].name
           /\ ~is_usb_interface(sysfs, recs[1][1])

\* C3: list_wifi_interfaces returns one adapter for each line of the listing
\* that has three or more fields and the type "wifi", in the order of the
\* listing, with the line's device and state fields, and none for any other
\* line.
C3_ListExactlyWifiLines ==
    (ret.op = "list_wifi_interfaces" /\ ListingRead) =>
        LET recs == Records(devListing)
            wifi == WifiLines(recs)
        IN  /\ ret.res.ok
            /\ Len(ret.res.val) = Cardinality(wifi)
            /\ \A i \in wifi :
                   LET k == Cardinality({j \in wifi : j <= i})
                   IN  /\ ret.res.val[k].name = recs[i][1]
                       /\ ret.res.val[k].state = recs[i][3]

\* C3 witness: a line of another type is passed over and the wireless line
\* behind it gives the one adapter of the result.
C3_Witness ==
    /\ ret.op = "list_wifi_interfaces" /\ ListingRead
    /\ Len(ret.res.val) = 1
    /\ LET recs == Records(devListing)
       IN  /\ Len(recs) = 2
           /\ Len(recs[1]) >= 3 /\ recs[1][2] = <<"ethernet">>
           /\ ret.res.val[1].name = recs[2][1]

ResolvedPathHasUsb(e) == e.link.ok /\ e.link.utf8 /\ Contains(e.link.path, "usb")
UeventHasUsb(e) == e.uevent.ok /\ Contains(e.uevent.content, "usb")

\* C4: every adapter listed whose resolved device symlink holds "usb" has
\* is_usb = TRUE, and every adapter for which neither the resolved path nor
\* the uevent file holds "usb" (or neither can be read) has is_usb = FALSE.
C4_UsbClassification ==
    (ret.op = "list_wifi_interfaces" /\ ret.res.ok) =>
        \A i \in 1..Len(ret.res.val) :
            LET a == ret.res.val[i]
                e == SysfsEntry(sysfs, a.name)
            IN  /\ ResolvedPathHasUsb(e) => a.is_usb
                /\ (~ResolvedPathHasUsb(e) /\ ~UeventHasUsb(e)) => ~a.is_usb

\* C4 witness: one listing holds an adapter classified USB by its symlink
\* and one whose symlink and uevent file are read and hold no "usb".
C4_Witness ==
    /\ ret.op = "list_wifi_interfaces" /\ ret.res.ok
    /\ \E i, j \in 1..Len(ret.res.val) :
           LET ei == SysfsEntry(sysfs, ret.res.val[i].name)
               ej == SysfsEntry(sysfs, ret.res.val[j].name)
           IN  /\ ResolvedPathHasUsb(ei)
               /\ ret.res.val[i].is_usb
               /\ ej.link = LinkTo(PciPath)
               /\ ej.uevent.ok /\ ~UeventHasUsb(ej)
               /\ ~ret.res.val[j].is_usb

\* C5: every adapter listed whose symlink cannot be resolved, or resolves to a
\* path without "usb", and whose uevent file holds "usb", has is_usb = TRUE.
C5_UeventConsulted ==
    (ret.op = "list_wifi_interfaces" /\ ret.res.ok) =>
        \A i \in 1..Len(ret.res.val) :
            LET a == ret.res.val[i]
                e == SysfsEntry(sysfs, a.name)
            IN  (~ResolvedPathHasUsb(e) /\ UeventHasUsb(e)) => a.is_usb

\* ---------------------------------------------------------- claims: scan

\* The records of the SSID:SIGNAL:SECURITY listing with an SSID: the lines
\* that have the three fields.
RecordsOf(recs, ssid) == {i \in 1..Len(recs) : Len(recs[i]) >= 3 /\ recs[i][1] = ssid}
FirstRecord(recs, ssid) == Least(RecordsOf(recs, ssid))

Scanned == ret.op = "scan_networks" /\ ret.res.ok

ExampleListing ==
    <<"A", ":", "5", "0", ":", "WPA2", NL,
      "B", ":", "9", "0", ":", NL,
      "A", ":", "3", "0", ":", "WPA2", NL>>

\* C6: the result of scan_networks holds at most one Network per SSID, and the
\* Network of an SSID has the signal and the security of the first record of
\* the listing with that SSID; the records A/50, B/90, A/30 give B/90, A/50.
C6_FirstRecordWins ==
    Scanned =>
        LET recs == Records(apListing)
            nets == ret.res.val
        IN  /\ \A i, j \in 1..Len(nets) : nets[i].ssid = nets[j].ssid => i = j
            /\ \A i \in 1..Len(nets) :
                   LET of == RecordsOf(recs, nets[i].ssid)
                   IN  /\ of # {}
                       /\ nets[i].signal = parse_signal(recs[Least(of)][2])
                       /\ nets[i].security =
                              Join(SubSeq(recs[Least(of)], 3, Len(recs[Least(of)])), COLON)
            /\ apListing = ExampleListing =>
                   nets = <<Network(<<"B">>, 90, <<>>), Network(<<"A">>, 50, <<"WPA2">>)>>

\* C6 witness: the listing A/50, B/90, A/30 was scanned.
C6_Witness ==
    /\ Scanned
    /\ apListing = ExampleListing
    /\ Len(ret.res.val) = 2

\* C7: the result of scan_networks is ordered by non-increasing signal, and
\* two networks of equal signal are in the order of their first records.
C7_SortedStable ==
    Scanned =>
        LET recs == Records(apListing)
            nets == ret.res.val
        IN  \A i, j \in 1..Len(nets) :
                i < j =>
                    /\ nets[i].signal >= nets[j].signal
                    /\ nets[i].signal = nets[j].signal =>
                           FirstRecord(recs, nets[i].ssid) < FirstRecord(recs, nets[j].ssid)

\* C7 witness: a stronger network listed last comes first, ahead of two
\* networks of equal signal that keep the order of the listing.
C7_Witness ==
    /\ Scanned
    /\ Len(ret.res.val) = 3
    /\ Records(apListing)[3][1] = ret.res.val[1].ssid
    /\ Records(apListing)[1][1] = ret.res.val[2].ssid
    /\ ret.res.val[1].signal > ret.res.val[2].signal
    /\ ret.res.val[2].signal = ret.res.val[3].signal
    /\ ret.res.val[2].signal > 0

C9_SignalIsPercentage ==
    Scanned => \A i \in 1..Len(ret.res.val) : ret.res.val[i].signal \in 0..100

\* The records scan_networks is to keep: three fields, an SSID that is not
\* empty, and no earlier record of that SSID.
KeptRecords(recs) ==
    {i \in 1..Len(recs) :
        /\ Len(recs[i]) >= 3
        /\ recs[i][1] # <<>>
        /\ i = FirstRecord(recs, recs[i][1])}

\* C10: when the list command succeeds scan_networks returns Ok, with one
\* Network for every record to keep; a record whose signal field does not
\* parse is among them, with signal 0.
C10_MalformedSignalKept ==
    (ret.op = "scan_networks" /\ ListingRead) =>
        LET recs == Records(apListing)
            kept == KeptRecords(recs)
            nets == ret.res.val
        IN  /\ ret.res.ok
            /\ Len(nets) = Cardinality(kept)
            /\ \A k \in kept :
                   \E i \in 1..Len(nets) :
                       /\ nets[i].ssid = recs[k][1]
                       /\ parse_u8(recs[k][2]) = <<>> => nets[i].signal = 0

\* C10 witness: a record whose signal does not parse stands between two
\* other records, and all three are returned, that one with signal 0.
C10_Witness ==
    /\ Scanned
    /\ Len(ret.res.val) = 3
    /\ LET recs == Records(apListing)
       IN  /\ Len(recs) = 3
           /\ parse_u8(recs[2][2]) = <<>>
           /\ ret.res.val[3].ssid = recs[2][1]
    /\ ret.res.val[3].signal = 0
    /\ ret.res.val[1].signal > 0 /\ ret.res.val[2].signal > 0

\* The text of a line behind its n-th colon.
RECURSIVE AfterColon(_, _)
AfterColon(line, n) ==
    IF n = 0 THEN line
    ELSE AfterColon(SubSeq(line, FirstIndex(line, COLON) + 1, Len(line)), n - 1)

\* C11: for every record of the listing that scan_networks keeps, the security
\* of its Network is the whole text of the line behind the second colon: the
\* third and all following fields with their colons; an empty third field
\* with nothing behind it gives the empty security.
C11_SecurityRejoined ==
    Scanned =>
        LET lines == Lines(apListing)
            recs == Records(apListing)
            nets == ret.res.val
        IN  \A k \in KeptRecords(recs) :
                \E i \in 1..Len(nets) :
                    /\ nets[i].ssid = recs[k][1]
                    /\ nets[i].security = AfterColon(lines[k], 2)
                    /\ nets[i].security = Join(SubSeq(recs[k], 3, Len(recs[k])), COLON)
                    /\ (Len(recs[k]) = 3 /\ recs[k][3] = <<>>) => nets[i].security = <<>>

\* C11 witness: one scan returns a network whose security holds a colon, from
\* a record of four fields, and one whose security is empty.
C11_Witness ==
    /\ Scanned
    /\ LET recs == Records(apListing)
           nets == ret.res.val
       IN  /\ \E i \in 1..Len(nets) :
                  /\ nets[i].security = <<"WPA1 WPA2", COLON, "802.1X">>
                  /\ \E k \in KeptRecords(recs) : Len(recs[k]) = 4 /\ recs[k][1] = nets[i].ssid
           /\ \E i \in 1..Len(nets) : nets[i].security = <<>>

\* ------------------------------------------------------- claims: status

Greatest(S) == CHOOSE i \in S : \A j \in S : j <= i

HasColon(line) == Contains(line, COLON)

\* The lines of a KEY:VALUE listing with a key: those that hold a colon and
\* have the key as their text before the first one.
LinesWithKey(lines, key) ==
    {i \in 1..Len(lines) :
        HasColon(lines[i]) /\ SubSeq(lines[i], 1, FirstIndex(lines[i], COLON) - 1) = key}

\* The lines among them that carry a value: not the empty text, not "--".
LinesWithValue(lines, key) ==
    {i \in LinesWithKey(lines, key) : AfterColon(lines[i], 1) \notin {<<>>, <<"--">>}}

StatusRead == ret.op = "status" /\ ListingRead

\* C12: the ConnectionStatus that status returns is given by the lines of the
\* four keys alone: state is the text behind the first colon of the last
\* GENERAL.STATE line, ip_address that of the last IP4.ADDRESS[1] line,
\* connection and gateway that of the last GENERAL.CONNECTION and IP4.GATEWAY
\* line that carries a value, each with its further colons; a field without
\* such a line keeps its default, whatever lines of other keys there are.
C12_StatusKeys ==
    StatusRead =>
        LET lines == Lines(showListing)
            st == ret.res.val[1]
            state == LinesWithKey(lines, <<"GENERAL.STATE">>)
            conn == LinesWithValue(lines, <<"GENERAL.CONNECTION">>)
            addr == LinesWithKey(lines, <<"IP4.ADDRESS[1]">>)
            gw == LinesWithValue(lines, <<"IP4.GATEWAY">>)
        IN  /\ st.state = IF state = {} THEN <<"unknown">>
                           ELSE AfterColon(lines[Greatest(state)], 1)
            /\ st.connection = IF conn = {} THEN <<>>
                                ELSE <<AfterColon(lines[Greatest(conn)], 1)>>
            /\ st.ip_address = IF addr = {} THEN <<>>
                                ELSE <<AfterColon(lines[Greatest(addr)], 1)>>
            /\ st.gateway = IF gw = {} THEN <<>>
                             ELSE <<AfterColon(lines[Greatest(gw)], 1)>>

\* C12 witness: the connection name holds a colon and is kept whole, a line
\* of another key with a colon in its value stands in the output, and the
\* address is read.
C12_Witness ==
    /\ StatusRead
    /\ ret.res.val[1].connection = << <<"AP", COLON, "5G">> >>
    /\ ret.res.val[1].ip_address = << <<"192.168.4.2/24">> >>
    /\ LinesWithKey(Lines(showListing), <<"GENERAL.HWADDR">>) # {}

\* C13: in every ConnectionStatus returned by status, connection, ip_address
\* and gateway are each absent or a text that is neither empty nor "--".
C13_NoSentinel ==
    (ret.op = "status" /\ ret.res.ok) =>
        LET st == ret.res.val[1]
        IN  \A f \in {st.connection, st.ip_address, st.gateway} :
                f = <<>> \/ f[1] \notin {<<>>, <<"--">>}

\* C14: when the status command exits with success, status returns Ok with
\* the queried name as interface; the lines without a colon are skipped, so
\* the result is that of the other lines alone; without a GENERAL.STATE line
\* the state is "unknown".
C14_StatusNeverFails ==
    StatusRead =>
        LET lines == Lines(showListing)
        IN  /\ ret.res.ok
            /\ ret.res.val[1].interface = ret.arg[1]
            /\ LinesWithKey(lines, <<"GENERAL.STATE">>) = {} =>
                   ret.res.val[1].state = <<"unknown">>
            /\ ret.res.val[1] =
                   ParseStatus(SelectSeq(lines, HasColon),
                               ConnectionStatus(ret.arg[1], <<"unknown">>, <<>>, <<>>, <<>>))

\* C14 witness: the output holds a line without a colon and no state, and
\* status returns the gateway of its third line with the state "unknown".
C14_Witness ==
    /\ StatusRead
    /\ ret.res.ok
    /\ ret.res.val[1].state = <<"unknown">>
    /\ ret.res.val[1].gateway # <<>>
    /\ ret.res.val[1].interface = <<"wlan1">>
    /\ \E i \in 1..Len(Lines(showListing)) : ~HasColon(Lines(showListing)[i])

\* ---------------------------------------------- claims: external processes

\* The last process of a call that has returned: how it ended and what it
\* printed.
LastEvent == ret.cmds[Len(ret.cmds)]

ExitedNonZero(e) == e.ev = "exit" /\ ~e.out.success

\* C15: connect returns Ok exactly when the connect command has exited with
\* success; when it has exited without, connect fails with ConnectionFailed
\* carrying the stderr of the command if that is not empty and its stdout
\* otherwise.
C15_ConnectResult ==
    ret.op = "connect" =>
        /\ ret.res.ok <=> (LastEvent.ev = "exit" /\ LastEvent.out.success)
        /\ ExitedNonZero(LastEvent) =>
               ret.res = ConnectionFailed(IF LastEvent.out.stderr # <<>>
                                          THEN LastEvent.out.stderr
                                          ELSE LastEvent.out.stdout)

\* C15 witness: the command has failed with its message on stdout and
\* nothing on stderr, and connect fails with that message.
C15_Witness ==
    /\ ret.op = "connect"
    /\ ExitedNonZero(LastEvent)
    /\ LastEvent.out.stderr = <<>>
    /\ ret.res = ConnectionFailed(<<"Error: Connection activation failed.">>)

\* C16: when the command of disconnect, of status, of list_wifi_interfaces or
\* the list command of scan_networks has run and exited without success, the
\* operation fails with NmcliExecution carrying the stderr of the command and
\* returns no value, whatever the command has printed on stdout.
C16_NonZeroExit ==
    (ret.op \in {"disconnect", "status", "list_wifi_interfaces", "scan_networks"}
     /\ ExitedNonZero(LastEvent)) =>
        /\ ret.res = NmcliExecution(LastEvent.out.stderr)
        /\ ~ret.res.ok
        /\ ret.res.val = <<>>

\* C16 witness: the status command has printed lines and then failed, and
\* status fails with the text of stderr.
C16_Witness ==
    /\ ret.op = "status"
    /\ ExitedNonZero(LastEvent)
    /\ LastEvent.out.stdout # <<>>
    /\ ret.res = NmcliExecution(StderrText)

\* The end of the rescan command of a scan_networks call that has returned.
RescanEvent == ret.cmds[CHOOSE i \in 1..Len(ret.cmds) :
                            ret.cmds[i].cmd = "wifi rescan" /\ ret.cmds[i].ev # "start"]

\* C17: however the rescan command of scan_networks ends, the list command
\* is run behind it, and scan_networks returns what it returns on the same
\* output of the list command behind a rescan that succeeded: Ok exactly when
\* the list command has exited with success.
C17_RescanSwallowed ==
    ret.op = "scan_networks" =>
        /\ LastEvent.cmd = "wifi list"
        /\ LastEvent.ev \in {"exit", "nospawn"}
        /\ ret.res.ok <=> LastEvent.out.success
        /\ ret.res = scan_networks(ret.arg[1], Exited(TRUE, <<>>, <<>>), LastEvent.out)

\* C17 witness: the rescan command was refused, and the scan returns the two
\* networks of the listing.
C17_Witness ==
    /\ ret.op = "scan_networks"
    /\ ExitedNonZero(RescanEvent)
    /\ ret.res.ok
    /\ Len(ret.res.val) = 2

\* C17 witness: the rescan command could not be started, and the scan
\* returns the two networks of the listing.
C17_WitnessNoSpawn ==
    /\ ret.op = "scan_networks"
    /\ RescanEvent.ev = "nospawn"
    /\ ret.res.ok
    /\ Len(ret.res.val) = 2

OneCommandOps == {"connect", "disconnect", "status", "list_wifi_interfaces"}

\* The attempts to start a process among the events of a call.
Attempts(events) == {i \in 1..Len(events) : events[i].ev \in {"start", "nospawn"}}

\* C18: connect, disconnect, status and list_wifi_interfaces never start a
\* second process in one call; a call that has returned has made one attempt
\* to start its command, has waited for the process it started to end, and
\* has returned an error when the process could not be started or has failed.
C18_NoRetry ==
    /\ call.op \in OneCommandOps => Cardinality(Attempts(call.events)) <= 1
    /\ ret.op \in OneCommandOps =>
           /\ Cardinality(Attempts(ret.cmds)) = 1
           /\ \/ Len(ret.cmds) = 1 /\ ret.cmds[1].ev = "nospawn"
              \/ /\ Len(ret.cmds) = 2
                 /\ ret.cmds[1].ev = "start" /\ ret.cmds[2].ev = "exit"
                 /\ ret.cmds[1].cmd = ret.cmds[2].cmd
           /\ ~LastEvent.out.success => ~ret.res.ok

\* C18 witness: disconnect has started its command once, the command has
\* failed, and disconnect has returned the error.
C18_Witness ==
    /\ ret.op = "disconnect"
    /\ Len(ret.cmds) = 2
    /\ ExitedNonZero(LastEvent)
    /\ ret.res.err.kind = "NmcliExecution"

\* ------------------------------------------------ claims: repeated calls

\* C19: a call of list_wifi_interfaces made while the caller holds the result
\* of an earlier one returns that same result when the daemon listing, the
\* sysfs state and the end of the command are those of the earlier call, and
\* whenever its command succeeds it returns the adapters of the listing and
\* the sysfs state as they are now, whatever the earlier call had returned.
C19_NoStaleResult ==
    (ret.op = "list_wifi_interfaces" /\ prev # NoCall) =>
        /\ (prev.devListing = devListing /\ prev.sysfs = sysfs /\ prev.cmds = ret.cmds) =>
               ret.res = prev.res
        /\ ListingRead =>
               LET recs == Records(devListing)
                   wifi == WifiLines(recs)
               IN  /\ ret.res.ok
                   /\ Len(ret.res.val) = Cardinality(wifi)
                   /\ \A i \in wifi :
                          ret.res.val[Cardinality({j \in wifi : j <= i})] =
                              WifiInterface(recs[i][1], recs[i][3],
                                            is_usb_interface(sysfs, recs[i][1]))

\* C19 witness: between two calls that list the same two adapters one of
\* them was replugged, and the second call classifies it as it is now.
C19_Witness ==
    /\ ret.op = "list_wifi_interfaces" /\ prev # NoCall
    /\ ret.res.ok /\ prev.res.ok
    /\ prev.devListing = devListing
    /\ prev.sysfs # sysfs
    /\ Len(ret.res.val) = 2 /\ Len(prev.res.val) = 2
    /\ ret.res.val[2].is_usb /\ ~prev.res.val[2].is_usb

\* C19 witness: two calls in one system state have returned the same two
\* adapters.
C19_WitnessSameState ==
    /\ ret.op = "list_wifi_interfaces" /\ prev # NoCall
    /\ prev.devListing = devListing /\ prev.sysfs = sysfs
    /\ ret.res.ok /\ Len(ret.res.val) = 2
    /\ ret.res = prev.res

\* --------------------------------------------------- claims: command line

CliOps == {"cmd_scan", "cmd_connect", "cmd_status", "cmd_disconnect"}

\* The interfaces the stored configuration prefers for a run: its
\* default_interface, and for a connect the interface of the saved network
\* of the SSID.
Preferences(r) ==
    LET cfg == unwrap_or_default(Config_load(r.stored))
        network == IF r.op = "cmd_connect" THEN find_network(cfg, r.arg[2]) ELSE <<>>
    IN  {x \in DeviceNames :
            \/ cfg.default_interface = <<x>>
            \/ network # <<>> /\ network[1].interface = <<x>>}

\* C20: a command run without an interface argument while the stored
\* configuration holds an interface preference gives every nmcli command that
\* names an interface a preferred one, and does not fail for want of a USB
\* adapter.
C20_ConfiguredPreference ==
    (ret.op \in CliOps /\ ret.arg[1] = <<>> /\ Preferences(ret) # {}) =>
        /\ \A i \in 1..Len(ret.cmds) :
               ret.cmds[i].ifname # <<>> => ret.cmds[i].ifname[1] \in Preferences(ret)
        /\ ret.res.err.kind # "NoUsbInterfaceFound"

\* The configuration the stored file reads as: that of its text when the
\* text parses, the empty one when there is no file or the text does not parse.
StoredConfig(r) == IF r.stored.state = "ok" THEN r.stored.cfg ELSE ConfigDefault

\* The password of the first saved profile of the SSID of a connect run.
SavedPasswords(r) ==
    LET all == StoredConfig(r).networks
    IN  {all[i].password :
            i \in {i \in 1..Len(all) :
                      all[i].ssid = r.arg[2] /\ \A j \in 1..(i - 1) : all[j].ssid # r.arg[2]}}

StepsOf(r, cmd) == {i \in 1..Len(r.cmds) : r.cmds[i].cmd = cmd}

\* C21: cmd_connect gives the connect command the password of the command
\* line when there is one and otherwise the saved password of the profile of
\* the SSID; with neither it fails having taken no step at all (no device
\* listing, no connect command), and with one of them it goes on to resolve
\* the interface.
C21_PasswordSource ==
    ret.op = "cmd_connect" =>
        LET given == ret.arg[3]
            saved == SavedPasswords(ret)
        IN  /\ \A i \in StepsOf(ret, "wifi connect") :
                   /\ ret.cmds[i].args[1] = ret.arg[2]
                   /\ ret.cmds[i].args[2] \in (IF given # <<>> THEN {given[1]} ELSE saved)
            /\ (given = <<>> /\ saved = {}) =>
                   ret.res.err.kind = "Bail" /\ ret.cmds = <<>>
            /\ (given # <<>> \/ saved # {}) =>
                   ret.cmds # <<>> /\ ret.cmds[1].cmd = "device"

\* A connect without a password on the command line that ran the connect
\* command with the saved password.
C21_Witness ==
    /\ ret.op = "cmd_connect" /\ ret.arg[3] = <<>>
    /\ \E i \in StepsOf(ret, "wifi connect") : ret.cmds[i].args[2] = <<"hunter2">>

\* A connect with a password on the command line although another one is saved.
C21_WitnessGiven ==
    /\ ret.op = "cmd_connect" /\ ret.arg[3] = << <<"secret">> >>
    /\ SavedPasswords(ret) = {<<"hunter2">>}
    /\ StepsOf(ret, "wifi connect") # {}

\* A connect with no password at all.
C21_WitnessNone ==
    /\ ret.op = "cmd_connect" /\ ret.arg[3] = <<>> /\ SavedPasswords(ret) = {}
    /\ ~ret.res.ok

\* The connect command of a run has exited with success.
ConnectSucceeded(r) == r.io.connect.spawned /\ r.io.connect.success

\* The entries of a config file that carry the SSID.
EntriesOf(file, ssid) ==
    {file.cfg.networks[i] :
        i \in {i \in 1..Len(file.cfg.networks) : file.cfg.networks[i].ssid = ssid}}

\* C22: a run of cmd_connect changes the config file only by a save step, and
\* it takes that step only with the save flag set and after a connect command
\* that succeeded; a save that succeeds leaves one entry of the SSID, holding
\* the SSID, the password and the interface the connect command was given;
\* without the flag or with a failed connect the file is as it was; and the
\* commands cmd_scan, cmd_status, cmd_disconnect, cmd_fetch_gateway and
\* cmd_serve, which run the core operations, leave the file as it was.
C22_StoreWrites ==
    /\ ret.op = "cmd_connect" =>
           LET saves == StepsOf(ret, "config save")
               connects == StepsOf(ret, "wifi connect")
           IN  /\ configFile # ret.stored => saves # {}
               /\ \A s \in saves :
                      /\ ret.arg[4]
                      /\ ConnectSucceeded(ret)
                      /\ \E c \in connects : c < s
               /\ (saves # {} /\ ret.io.write = "ok") =>
                      /\ configFile.state = "ok"
                      /\ \A c \in connects :
                             EntriesOf(configFile, ret.arg[2]) =
                                 {NetworkConfig(ret.arg[2], ret.cmds[c].args[2],
                                                <<ret.cmds[c].ifname[1]>>)}
               /\ (~ret.arg[4] \/ ~ConnectSucceeded(ret)) => configFile = ret.stored
    /\ ret.op \in {"cmd_scan", "cmd_status", "cmd_disconnect", "cmd_fetch_gateway",
                   "cmd_serve"} =>
           configFile = ret.stored /\ StepsOf(ret, "config save") = {}

\* A connect with the save flag that connected and saved a new entry.
C22_Witness ==
    /\ ret.op = "cmd_connect" /\ ret.arg[4] /\ ConnectSucceeded(ret)
    /\ ret.io.write = "ok"
    /\ configFile # ret.stored
    /\ EntriesOf(ret.stored, ret.arg[2]) = {}
    /\ EntriesOf(configFile, ret.arg[2]) # {}

\* A connect with the save flag whose connect command failed.
C22_WitnessFailed ==
    /\ ret.op = "cmd_connect" /\ ret.arg[4] /\ ~ConnectSucceeded(ret)
    /\ StepsOf(ret, "wifi connect") # {}
    /\ configFile = ret.stored

\* ------------------------------------------------------------ claims: config

\* C23: after add_network(n) exactly one entry has the SSID of n and it is n,
\* find_network of that SSID returns n, and the entries of the other SSIDs are
\* the ones there were, in the order they had; and a Config that was empty
\* before the caller's first call never holds two entries of one SSID.
C23_AddNetwork ==
    /\ ret.op = "add_network" =>
           LET n == ret.arg[1]
               after == selfConfig.networks
               Other(e) == e.ssid # n.ssid
           IN  /\ Cardinality({i \in 1..Len(after) : after[i].ssid = n.ssid}) = 1
               /\ \A i \in 1..Len(after) : after[i].ssid = n.ssid => after[i] = n
               /\ find_network(selfConfig, n.ssid) = <<n>>
               /\ SelectSeq(after, Other) = SelectSeq(ret.before.networks, Other)
    /\ (ret # NoCall /\ ret.fromEmpty) =>
           \A i, j \in 1..Len(selfConfig.networks) :
               selfConfig.networks[i].ssid = selfConfig.networks[j].ssid => i = j

\* add_network has replaced the entries of an SSID the Config held twice, and
\* kept two entries of other SSIDs.
C23_Witness ==
    /\ ret.op = "add_network"
    /\ Cardinality({i \in 1..Len(ret.before.networks) :
                       ret.before.networks[i].ssid = ret.arg[1].ssid}) = 2
    /\ Len(selfConfig.networks) = 2

\* Three calls of add_network on an empty Config, one of them a replacement.
C23_WitnessFromEmpty ==
    /\ ret.op = "add_network" /\ ret.fromEmpty
    /\ Len(selfConfig.networks) = 2 /\ Len(ret.before.networks) = 2

\* ------------------------------------------------- claims: device listing

\* C24: the adapter of a wireless line of more than three fields has for its
\* state the third and the following fields of the line, joined with ":".
C24_StateRejoined ==
    (ret.op = "list_wifi_interfaces" /\ ListingRead /\ ret.res.ok) =>
        LET recs == Records(devListing)
            wifi == WifiLines(recs)
        IN  \A i \in wifi :
                Len(recs[i]) > 3 =>
                    LET k == Cardinality({j \in wifi : j <= i})
                    IN  /\ k <= Len(ret.res.val)
                        /\ ret.res.val[k].state =
                               Join(SubSeq(recs[i], 3, Len(recs[i])), COLON)

\* ------------------------------------------------------ claims: scan steps

\* The events of a command in a sequence of events: its attempts to start,
\* and the ends of those attempts (the process has exited or never started).
AttemptsOf(events, cmd) == {i \in Attempts(events) : events[i].cmd = cmd}
EndsOf(events, cmd) ==
    {i \in 1..Len(events) : events[i].cmd = cmd /\ events[i].ev \in {"exit", "nospawn"}}
SleepsIn(events) == {i \in 1..Len(events) : events[i].ev = "sleep"}

\* The order of the external steps of scan_networks holds of a sequence of
\* events: one attempt at most of each command and one wait at most, the wait
\* after the end of the rescan, the list command after the wait.
ScanOrder(events) ==
    /\ Cardinality(AttemptsOf(events, "wifi rescan")) <= 1
    /\ Cardinality(AttemptsOf(events, "wifi list")) <= 1
    /\ Cardinality(SleepsIn(events)) <= 1
    /\ \A s \in SleepsIn(events) : \E r \in EndsOf(events, "wifi rescan") : r < s
    /\ \A l \in AttemptsOf(events, "wifi list") : \E s \in SleepsIn(events) : s < l
    /\ \A i \in 1..Len(events) :
           events[i].ev = "sleep" \/ events[i].cmd \in {"wifi rescan", "wifi list"}

\* C25: at every point of a call of scan_networks the rescan command has been
\* tried once at most, the wait has come only after the rescan process has
\* ended (or could not be started), and the list command has been tried once
\* at most and only after the wait; a call that has returned has tried the
\* rescan once, waited once and tried the list command once, and has run
\* nothing else.
C25_ScanOrder ==
    /\ call.op = "scan_networks" => ScanOrder(call.events)
    /\ ret.op = "scan_networks" =>
           /\ ScanOrder(ret.cmds)
           /\ Cardinality(AttemptsOf(ret.cmds, "wifi rescan")) = 1
           /\ Cardinality(SleepsIn(ret.cmds)) = 1
           /\ Cardinality(AttemptsOf(ret.cmds, "wifi list")) = 1
           /\ Cardinality(EndsOf(ret.cmds, "wifi list")) = 1

\* scan_networks has returned the networks after a rescan that failed, the
\* wait and the list command.
C25_Witness ==
    /\ ret.op = "scan_networks" /\ ret.res.ok
    /\ Len(ret.cmds) = 5
    /\ ret.cmds[2].ev = "exit" /\ ~ret.cmds[2].out.success
    /\ ret.cmds[3].ev = "sleep"
    /\ ret.cmds[4] = Event("start", "wifi list", NotSpawned)

\* ------------------------------------------------- claims: adapter in use

AdapterOps == {"cmd_scan", "cmd_connect", "cmd_status", "cmd_disconnect",
               "cmd_fetch_gateway", "cmd_serve"}

\* The steps of a run that name an interface.
PerAdapter(r) == {i \in 1..Len(r.cmds) : r.cmds[i].ifname # <<>>}

\* C26: a run of a command that acts on an adapter lists the devices (the
\* command of resolve_interface) once and before every step that names an
\* interface; when resolve_interface fails on that listing the run returns
\* its error and has taken no such step; when it succeeds every such step
\* names the adapter it returned.
C26_ResolvedAdapter ==
    ret.op \in AdapterOps =>
        /\ StepsOf(ret, "device") \subseteq {1}
        /\ PerAdapter(ret) # {} => StepsOf(ret, "device") = {1}
        /\ ret.cmds # <<>> =>
               LET resolved == resolve_interface(ret.arg[1], ret.io.device, sysfs)
               IN  /\ StepsOf(ret, "device") = {1}
                   /\ ~resolved.ok => ret.res = resolved /\ Len(ret.cmds) = 1
                   /\ resolved.ok =>
                          /\ PerAdapter(ret) # {}
                          /\ \A i \in PerAdapter(ret) :
                                 ret.cmds[i].ifname = <<resolved.val[1].name>>

\* A connect without an interface argument that has run the connect and the
\* status command on the USB adapter.
C26_Witness ==
    /\ ret.op = "cmd_connect" /\ ret.arg[1] = <<>>
    /\ Cardinality(PerAdapter(ret)) = 2
    /\ \A i \in PerAdapter(ret) : ret.cmds[i].ifname = << <<"wlan1">> >>

\* A disconnect whose adapter could not be resolved.
C26_WitnessFailed ==
    /\ ret.op = "cmd_disconnect" /\ ret.arg[1] = <<>>
    /\ ret.io.device.success
    /\ ret.res = NoUsbInterfaceFound

\* --------------------------------------------------------- claims: gateway

\* The status command of a run has exited with success, so that status has
\* returned the fields of the listing.
StatusShown(r) ==
    StepsOf(r, "device show") # {} /\ r.io.show.spawned /\ r.io.show.success

\* C27: when the status of the resolved adapter holds no gateway (no
\* IP4.GATEWAY line with a value), cmd_fetch_gateway and cmd_serve return the
\* error "No gateway found for interface <name>" and have made no HTTP
\* request and started no server, with or without a URL argument; when it
\* holds one, cmd_serve starts the server once on that gateway and the port
\* given, and cmd_fetch_gateway makes one request, for the URL of the command
\* line if there is one and for http://<gateway>/ otherwise.
C27_GatewayRequired ==
    (ret.op \in {"cmd_fetch_gateway", "cmd_serve"} /\ StatusShown(ret)) =>
        LET lines == Lines(showListing)
            gw == LinesWithValue(lines, <<"IP4.GATEWAY">>)
            gateway == AfterColon(lines[Greatest(gw)], 1)
            requests == StepsOf(ret, "http get")
            servers == StepsOf(ret, "run_server")
        IN  /\ gw = {} =>
                   /\ ret.res.err.kind = "Bail"
                   /\ ret.res.err.msg =
                          <<"No gateway found for interface ">>
                              \o ret.cmds[Greatest(StepsOf(ret, "device show"))].ifname[1]
                   /\ requests = {} /\ servers = {}
            /\ (gw # {} /\ ret.op = "cmd_serve") =>
                   /\ requests = {} /\ Cardinality(servers) = 1
                   /\ \A i \in servers : ret.cmds[i].args = <<gateway, ret.arg[2]>>
            /\ (gw # {} /\ ret.op = "cmd_fetch_gateway") =>
                   /\ servers = {} /\ Cardinality(requests) = 1
                   /\ \A i \in requests :
                          ret.cmds[i].args =
                              <<IF ret.arg[3] # <<>> THEN ret.arg[3][1]
                                ELSE <<"http://">> \o gateway \o <<"/">> >>

\* A fetch-gateway with a URL argument on an adapter without a gateway.
C27_Witness ==
    /\ ret.op = "cmd_fetch_gateway" /\ StatusShown(ret)
    /\ ret.arg[3] # <<>>
    /\ LinesWithValue(Lines(showListing), <<"IP4.GATEWAY">>) = {}
    /\ ~ret.res.ok

\* A serve that has started the server on the gateway of the adapter.
C27_WitnessServe ==
    /\ ret.op = "cmd_serve"
    /\ \E i \in StepsOf(ret, "run_server") :
           ret.cmds[i].args = << <<"192.168.4.1">>, <<"8080">> >>

\* A fetch-gateway without a URL argument that has fetched the gateway's page.
C27_WitnessFetch ==
    /\ ret.op = "cmd_fetch_gateway" /\ ret.arg[3] = <<>> /\ ret.res.ok
    /\ \E i \in StepsOf(ret, "http get") :
           ret.cmds[i].args = << <<"http://", "192.168.4.1", "/">> >>

\* ---------------------------------------------------- claims: repeated keys

\* The optional field the last line of a key gives: absent without a line of
\* the key, absent when the last one carries no value or "--", its value
\* otherwise.
LastLineField(lines, key) ==
    LET with == LinesWithKey(lines, key)
    IN  IF with = {} \/ Greatest(with) \notin LinesWithValue(lines, key) THEN <<>>
        ELSE <<AfterColon(lines[Greatest(with)], 1)>>

\* C28: each field of the ConnectionStatus that status returns is the one the
\* last line of its key gives: the state is the value of the last
\* GENERAL.STATE line, and connection, ip_address and gateway are the value
\* of the last line of their key, absent when that line carries the empty
\* value or "--".
C28_LastLineWins ==
    StatusRead =>
        LET lines == Lines(showListing)
            st == ret.res.val[1]
            state == LinesWithKey(lines, <<"GENERAL.STATE">>)
        IN  /\ state # {} => st.state = AfterColon(lines[Greatest(state)], 1)
            /\ st.connection = LastLineField(lines, <<"GENERAL.CONNECTION">>)
            /\ st.ip_address = LastLineField(lines, <<"IP4.ADDRESS[1]">>)
            /\ st.gateway = LastLineField(lines, <<"IP4.GATEWAY">>)

\* C28 for the two fields whose sentinel the code tests: the last line of
\* the key decides the connection and the gateway.
C28_LastLineWinsTested ==
    StatusRead =>
        LET lines == Lines(showListing)
            st == ret.res.val[1]
        IN  /\ st.connection = LastLineField(lines, <<"GENERAL.CONNECTION">>)
            /\ st.gateway = LastLineField(lines, <<"IP4.GATEWAY">>)

\* ----------------------------------------------------- claims: saved store

\* A run that has saved a network: its Config::save has written the file.
HasSaved(r) ==
    /\ r.op \in {"cmd_save_network", "cmd_connect"}
    /\ StepsOf(r, "config save") # {}
    /\ r.io.write = "ok"

\* The file holds what it held before but for the entries of the SSID, of
\* which it holds one.
KeepsOthers(before, after, ssid) ==
    LET Other(e) == e.ssid # ssid
    IN  /\ after.state = "ok"
        /\ after.cfg.default_interface = before.cfg.default_interface
        /\ SelectSeq(after.cfg.networks, Other) = SelectSeq(before.cfg.networks, Other)
        /\ Cardinality(EntriesOf(after, ssid)) = 1

\* C29: after a run that has saved a network the config file holds the
\* default_interface and the networks of the other SSIDs it held before, in
\* their order, and one entry of the saved SSID, whatever file there was.
C29_SaveKeepsOthers ==
    HasSaved(ret) => KeepsOthers(ret.stored, configFile, ret.arg[2])

\* C29 for the files that Config::load reads: no file, or one that parses.
C29_SaveKeepsOthersOfReadable ==
    (HasSaved(ret) /\ ret.stored.state # "corrupt") =>
        KeepsOthers(ret.stored, configFile, ret.arg[2])

\* A save on a file that parses and holds another network and a default interface.
C29_WitnessReadable ==
    /\ HasSaved(ret) /\ ret.op = "cmd_save_network" /\ ret.stored.state = "ok"
    /\ ret.stored.cfg.default_interface # <<>>
    /\ EntriesOf(ret.stored, <<"Home">>) # {} /\ ret.arg[2] = <<"RoboDog-AP">>

\* ------------------------------------------------------ claims: no rollback

\* C30: a run of cmd_connect runs the connect command once at most and the
\* disconnect command never; when the connect command has succeeded and the
\* save of the credentials or the status command behind it fails, the run
\* returns that error, and its last step is the one that failed: nothing is
\* run to take the connection down.
C30_NoRollback ==
    ret.op = "cmd_connect" =>
        LET connects == StepsOf(ret, "wifi connect")
            saves == StepsOf(ret, "config save")
            shows == StepsOf(ret, "device show")
        IN  /\ Cardinality(connects) <= 1
            /\ StepsOf(ret, "device disconnect") = {}
            /\ \A i \in 1..Len(ret.cmds) :
                   ret.cmds[i].cmd \in {"device", "wifi connect", "config save", "device show"}
            /\ (ConnectSucceeded(ret) /\ saves # {} /\ ret.io.write # "ok") =>
                   /\ ~ret.res.ok /\ ret.res.err.kind = "Io"
                   /\ saves = {Len(ret.cmds)}
            /\ (ConnectSucceeded(ret) /\ shows # {} /\ ~ret.io.show.success) =>
                   /\ ~ret.res.ok /\ ret.res.err.kind = "NmcliExecution"
                   /\ shows = {Len(ret.cmds)}
            /\ (ConnectSucceeded(ret) /\ ret.arg[4]) => saves # {}
            /\ (ConnectSucceeded(ret) /\ (saves = {} \/ ret.io.write = "ok")) => shows # {}

\* The connect command has succeeded, the status command behind it has
\* failed, and cmd_connect has returned the error.
C30_Witness ==
    /\ ret.op = "cmd_connect" /\ ConnectSucceeded(ret)
    /\ StepsOf(ret, "device show") # {} /\ ~ret.io.show.success
    /\ ~ret.res.ok

\* The connect command has succeeded, the save of the credentials has failed,
\* and cmd_connect has returned the error.
C30_WitnessSave ==
    /\ ret.op = "cmd_connect" /\ ConnectSucceeded(ret)
    /\ StepsOf(ret, "config save") # {} /\ ret.io.write = "torn"
    /\ ~ret.res.ok

====
